---- MODULE Spec2Model ----
(***************************************************************************)
(* gitpanic-cli: the Action Journal (ActionHistoryManager), the commands   *)
(* that bracket a git mutation with recordAction / completeAction, and the *)
(* part of the git accessor (GitWrapper) those commands use.               *)
(*                                                                         *)
(* A commit hash is a number 1..MaxHash; 0 stands for "no commit" (an      *)
(* unborn HEAD, on which `git rev-parse HEAD` fails).  An optional field   *)
(* of a RecordedAction (afterState, undoCommand) is a sequence of length 0 *)
(* (absent) or 1 (present).  timestamp and description are display-only    *)
(* and are not modelled.  Every CLI invocation is one process running one  *)
(* command; the operator runs one command at a time.                       *)
(***************************************************************************)
EXTENDS Integers, Sequences, FiniteSets, TLC

\* ------------------------------------------------------------------ bounds
MaxHash == 4
MaxActions == 2
MaxHistoryCfg == 2
MaxStash == 1
MaxCommits == 3
MaxConflicts == 2
MaxFailures == 1
MaxNameLen == 2

Paths == {"p1", "p2"}
Hashes == 1..MaxHash
ResetModes == {"soft", "mixed", "hard"}
\* values of config.maxActionHistory; getConfig() does not validate the number
HistoryCfgValues == {-1} \cup (0..MaxHistoryCfg)

VARIABLES
  head,              \* [Paths -> 0..MaxHash]   HEAD commit of the repository at each path
  parent,            \* [Hashes -> 0..MaxHash]  first parent of each commit object
  nextHash,          \* next unused commit hash
  staged,            \* [Paths -> BOOLEAN]      status.staged is non-empty
  journal,           \* content of ~/.gitpanic/history.json
  maxActionHistory,  \* config.maxActionHistory
  nextId,            \* source of generateId()
  pc,                \* position of the running command
  cwd,               \* process.cwd() of the running command
  cmd,               \* inputs of the running command
  act,               \* the RecordedAction object the running command holds
  report,            \* what the last command did and reported
  failedIds,         \* history: ids whose mutation threw
  consumed,          \* history: ids whose canUndo an undo forced to false
  lastUndo,          \* history: the call of ActionHistoryManager.undoLastAction
                     \* the command made
  lastSave,          \* history: outcome of recordAction's saveHistory call, kept
                     \* while the mutating call is outstanding
  c1,                \* history: an undo-commit and the undo-action run right
                     \* after it; clean = no I/O or engine failure hit them,
                     \* dirty = it started with uncommitted changes
  stashes,           \* [Paths -> 0..MaxStash]  length of `git stash list`
  q,                 \* the last call of a read-only evaluator: its name, its
                     \* inputs and what it returned
  writers            \* [Procs -> ...]  processes running at the same time on
                     \* one journal file, each between its loads and saves

vars == <<head, parent, nextHash, staged, journal, maxActionHistory, nextId,
          pc, cwd, cmd, act, report, failedIds, consumed, lastUndo, lastSave,
          c1, stashes, q, writers>>

gitVars == <<head, parent, nextHash, staged>>

\* ------------------------------------------------------------ small helpers
Min(a, b) == IF a < b THEN a ELSE b
Max(a, b) == IF a > b THEN a ELSE b

\* Array.prototype.slice(start) of JavaScript
JsSlice(s, start) ==
  LET len == Len(s)
      from == IF start < 0 THEN Max(len + start, 0) ELSE Min(start, len)
  IN  SubSeq(s, from + 1, len)

\* ------------------------------------------------------------- git accessor
RECURSIVE Depth(_)
\* number of commits `git log` lists from commit h
Depth(h) == IF h = 0 THEN 0 ELSE 1 + Depth(parent[h])

RECURSIVE Ancestor(_, _)
\* the commit HEAD~k names when HEAD is h (0 when there is none)
Ancestor(h, k) == IF h = 0 \/ k = 0 THEN h ELSE Ancestor(parent[h], k - 1)

\* GitWrapper.getRecentCommits(count).length; a failing `git log` yields []
RecentCommitsLen(p, count) == Min(count, Depth(head[p]))

\* GitWrapper.getHeadHash throws when `git rev-parse HEAD` fails
HeadHashThrows(p) == head[p] = 0

\* GitWrapper.getCurrentBranch: null when rev-parse fails
CurrentBranch(p) == IF head[p] = 0 THEN "null" ELSE "main"

\* GitWrapper.hasUncommittedChanges
HasUncommittedChanges(p) == staged[p]

\* `git reset <ref>` fails when the ref names no commit
ResetTargetExists(p, k) == Ancestor(head[p], k) # 0

\* -------------------------------------------------------------- the journal
NoState == <<>>
NoCommand == <<>>

Snapshot(p) == [headHash |-> head[p], branch |-> CurrentBranch(p)]

\* recordAction that fills afterState in at creation
NewAction_AfterSet(id, type, p, canUndo) ==
  [id |-> id, type |-> type, repoPath |-> p, beforeState |-> Snapshot(p),
   afterState |-> <<Snapshot(p)>>, undoCommand |-> NoCommand, canUndo |-> canUndo]

\* the object literal recordAction builds
NewAction(id, type, p, canUndo) ==
  [id |-> id, type |-> type, repoPath |-> p, beforeState |-> Snapshot(p),
   afterState |-> NoState, undoCommand |-> NoCommand, canUndo |-> canUndo]

LoadHistory(readOk) == IF readOk THEN journal ELSE <<>>

\* saveHistory that keeps the entries of the file its caller does not hold
SaveHistory_Merging(actions) ==
  LET others == SelectSeq(journal, LAMBDA a : \A i \in 1..Len(actions) :
                                                actions[i].id # a.id)
  IN  JsSlice(others \o actions, 0 - maxActionHistory)

\* what saveHistory writes
SaveHistory(actions) == JsSlice(actions, 0 - maxActionHistory)

\* the file after saveHistory(actions)
Saved(actions, writeOk) == IF writeOk THEN SaveHistory(actions) ELSE journal

\* Array.prototype.findIndex(a => a.id === id), 1-based; 0 for -1
FindIndex(actions, id) ==
  LET hits == {i \in 1..Len(actions) : actions[i].id = id}
  IN  IF hits = {} THEN 0 ELSE CHOOSE i \in hits : \A j \in hits : i <= j

\* getLastUndoableAction without the repoPath test
Undoable_AnyPath(a, repoPath) ==
  a.canUndo /\ a.undoCommand # NoCommand

\* getLastUndoableAction without the undoCommand test
Undoable_NoDirective(a, repoPath) ==
  a.canUndo /\ a.repoPath = repoPath

\* the test of the loop in getLastUndoableAction
Undoable(a, repoPath) ==
  a.canUndo /\ a.undoCommand # NoCommand /\ a.repoPath = repoPath

\* getLastUndoableAction scanning from the oldest entry
LastUndoableIndex_Oldest(actions, repoPath) ==
  LET hits == {i \in 1..Len(actions) : Undoable(actions[i], repoPath)}
  IN  IF hits = {} THEN 0 ELSE CHOOSE i \in hits : \A j \in hits : i <= j

\* index of the entry getLastUndoableAction returns; 0 for null
LastUndoableIndex(actions, repoPath) ==
  LET hits == {i \in 1..Len(actions) : Undoable(actions[i], repoPath)}
  IN  IF hits = {} THEN 0 ELSE CHOOSE i \in hits : \A j \in hits : j <= i

GetLastUndoableAction(actions, repoPath) ==
  LET i == LastUndoableIndex(actions, repoPath)
  IN  IF i = 0 THEN <<>> ELSE <<actions[i]>>

\* completeAction that leaves the entry as recordAction built it
Completed_Untouched(a, p) == a

\* completeAction that derives the directive without comparing the heads
Completed_AlwaysDirective(a, p) ==
  LET after == Snapshot(p)
  IN  [a EXCEPT !.afterState = <<after>>,
                !.undoCommand = IF a.canUndo
                                THEN <<a.beforeState.headHash>> ELSE @]

\* the action object after completeAction filled it in
Completed(a, p) ==
  LET after == Snapshot(p)
  IN  [a EXCEPT !.afterState = <<after>>,
                !.undoCommand = IF a.canUndo /\ a.beforeState.headHash # after.headHash
                                THEN <<a.beforeState.headHash>> ELSE @]

\* completeAction that adds the entry when the file does not hold it
CompleteAction_AddsWhenMissing(a, p, readOk, writeOk) ==
  LET actions == LoadHistory(readOk)
      index == FindIndex(actions, a.id)
  IN  IF index # 0
      THEN Saved([actions EXCEPT ![index] = Completed(a, p)], writeOk)
      ELSE Saved(Append(actions, Completed(a, p)), writeOk)

\* the file after completeAction(a)
CompleteAction(a, p, readOk, writeOk) ==
  LET actions == LoadHistory(readOk)
      index == FindIndex(actions, a.id)
  IN  IF index # 0
      THEN Saved([actions EXCEPT ![index] = Completed(a, p)], writeOk)
      ELSE journal

\* ------------------------------------------------------------------- Init
NoAction ==
  [id |-> 0, type |-> "none", repoPath |-> "p1",
   beforeState |-> [headHash |-> 0, branch |-> "null"],
   afterState |-> NoState, undoCommand |-> NoCommand, canUndo |-> FALSE]
NoCmd == [type |-> "none", count |-> 0, mode |-> "soft"]
NoReport == [cmd |-> "none", confirmed |-> FALSE, issued |-> FALSE, outcome |-> "none"]
NoUndo ==
  [called |-> FALSE, success |-> FALSE, id |-> 0, path |-> "p1", entryPath |-> "p1",
   from |-> 0]
NoC1 == [stage |-> "none", path |-> "p1", pre |-> 0, clean |-> TRUE, dirty |-> FALSE]

\* the next stage of the history c1, after a step that hit a failure or not
C1Step(stage, fault) ==
  IF c1.stage = "none" THEN c1
  ELSE [c1 EXCEPT !.stage = stage, !.clean = (@ /\ ~fault)]

\* no evaluator was called
NoCall == [op |-> "none"]

\* two gitpanic processes that may run at the same time
Procs == {1, 2}

\* a process that is between commands: at is where it stands, copy the
\* array it holds in memory between loadHistory and saveHistory, act the
\* action object it works on
NoWriter == [at |-> "idle", copy |-> <<>>, act |-> NoAction]

\* no command is running: nothing of the last process is left
NoProcess ==
  /\ pc = "idle"
  /\ cwd = "p1"
  /\ cmd = NoCmd
  /\ act = NoAction
  /\ report = NoReport
  /\ lastUndo = NoUndo
  /\ lastSave = "none"
  /\ c1 = NoC1

Init ==
  /\ head = [p \in Paths |-> 0]
  /\ parent = [h \in Hashes |-> 0]
  /\ nextHash = 1
  /\ staged = [p \in Paths |-> FALSE]
  /\ journal = <<>>
  /\ maxActionHistory \in HistoryCfgValues
  /\ nextId = 1
  /\ failedIds = {}
  /\ consumed = {}
  /\ stashes = [p \in Paths |-> 0]
  /\ q = NoCall
  /\ writers = [w \in Procs |-> NoWriter]
  /\ NoProcess

\* ------------------------------------------------ safety evaluator (reset)
RecentWindow == 10

\* what a caller gets when the evaluator's promise rejects
Raised == [raised |-> TRUE]

\* checkBeforeReset whose warnings make the result unsafe
CheckBeforeResetOn_WarningsBlock(len, changes, pushed, mode, commitCount) ==
  LET blockers == IF len < commitCount THEN <<"only_n_commits">> ELSE <<>>
      discard == IF mode = "hard" /\ changes = "yes"
                 THEN <<"discard_uncommitted">> ELSE <<>>
      forcePush == SelectSeq([i \in 1..len |-> IF pushed[i] THEN "pushed" ELSE "local"],
                             LAMBDA w : w = "pushed")
  IN  IF mode = "hard" /\ changes = "throws" THEN Raised
      ELSE [raised |-> FALSE,
            safe |-> blockers = <<>> /\ discard \o forcePush = <<>>,
            warnings |-> discard \o forcePush, blockers |-> blockers]

\* checkBeforeReset that warns once however many commits are pushed
CheckBeforeResetOn_OnePushedWarning(len, changes, pushed, mode, commitCount) ==
  LET blockers == IF len < commitCount THEN <<"only_n_commits">> ELSE <<>>
      discard == IF mode = "hard" /\ changes = "yes"
                 THEN <<"discard_uncommitted">> ELSE <<>>
      forcePush == IF \E i \in 1..len : pushed[i] THEN <<"pushed">> ELSE <<>>
  IN  IF mode = "hard" /\ changes = "throws" THEN Raised
      ELSE [raised |-> FALSE, safe |-> blockers = <<>>,
            warnings |-> discard \o forcePush, blockers |-> blockers]

\* the body of checkBeforeReset(mode, commitCount) on what its queries gave:
\* len is commits.length, changes the outcome of git.hasUncommittedChanges()
\* ("yes", "no" or "throws"), pushed[i] the answer of git.isPushed for the
\* i-th commit returned
CheckBeforeResetOn(len, changes, pushed, mode, commitCount) ==
  LET blockers == IF len < commitCount THEN <<"only_n_commits">> ELSE <<>>
      discard == IF mode = "hard" /\ changes = "yes"
                 THEN <<"discard_uncommitted">> ELSE <<>>
      forcePush == SelectSeq([i \in 1..len |-> IF pushed[i] THEN "pushed" ELSE "local"],
                             LAMBDA w : w = "pushed")
  IN  IF mode = "hard" /\ changes = "throws" THEN Raised
      ELSE [raised |-> FALSE, safe |-> blockers = <<>>,
            warnings |-> discard \o forcePush, blockers |-> blockers]

\* checkBeforeReset(mode, commitCount) in the repository at p; the
\* repositories of the commands have no remote, so status.tracking is null
\* and isPushed is false for every commit
CheckBeforeReset(p, mode, commitCount) ==
  CheckBeforeResetOn(RecentCommitsLen(p, commitCount),
                     IF HasUncommittedChanges(p) THEN "yes" ELSE "no",
                     [i \in 1..RecentCommitsLen(p, commitCount) |-> FALSE],
                     mode, commitCount)

\* checkBeforeAmend() on what getLastCommit and isPushed gave
CheckBeforeAmendOn(hasLastCommit, pushed) ==
  IF ~hasLastCommit
  THEN [raised |-> FALSE, safe |-> FALSE, warnings |-> <<>>,
        blockers |-> <<"no_commits">>]
  ELSE LET warnings == IF pushed THEN <<"pushed">> ELSE <<>>
           blockers == <<>>
       IN  [raised |-> FALSE, safe |-> blockers = <<>>, warnings |-> warnings,
            blockers |-> blockers]

\* characters of a branch name, by class: one the pattern [a-zA-Z0-9/_-]
\* accepts ("a", "/") and one it rejects but git allows in a branch name
\* (".")
NameChars == {"a", "/", "."}

\* the pattern with * in place of +: the empty name passes
ValidBranchName_EmptyPasses(branchName) ==
  \A i \in 1..Len(branchName) : branchName[i] \in {"a", "/"}

\* /^[a-zA-Z0-9/_-]+$/.test(branchName); a name is a sequence of characters
ValidBranchName(branchName) ==
  /\ Len(branchName) > 0
  /\ \A i \in 1..Len(branchName) : branchName[i] \in {"a", "/"}

\* checkBeforeBranchCreate(branchName); listed.ok tells whether git.branch()
\* resolved, listed.all is branches.all
CheckBeforeBranchCreateOn(listed, branchName) ==
  IF ~listed.ok THEN Raised
  ELSE LET exists == IF branchName \in listed.all THEN <<"exists">> ELSE <<>>
           invalid == IF ~ValidBranchName(branchName) THEN <<"invalid_name">> ELSE <<>>
           blockers == exists \o invalid
       IN  [raised |-> FALSE, safe |-> blockers = <<>>, warnings |-> <<>>,
            blockers |-> blockers]

\* showSafetyWarnings that goes on past warnings without the prompt
ShowSafetyWarnings_Silent(result, proceed) ==
  IF ~result.safe THEN [asked |-> FALSE, returns |-> FALSE]
  ELSE [asked |-> FALSE, returns |-> TRUE]

\* showSafetyWarnings(result): what it returns, and whether it put the
\* 'Continue anyway?' prompt, to which proceed is the operator's answer
ShowSafetyWarnings(result, proceed) ==
  IF ~result.safe THEN [asked |-> FALSE, returns |-> FALSE]
  ELSE IF Len(result.warnings) > 0 THEN [asked |-> TRUE, returns |-> proceed]
  ELSE [asked |-> FALSE, returns |-> TRUE]

\* the command's next lines on a result: showSafetyWarnings under either
\* answer of the operator; nothing is shown when the evaluator raised
Shown(result) ==
  IF result.raised THEN <<>>
  ELSE <<[answer \in BOOLEAN |-> ShowSafetyWarnings(result, answer)]>>

\* --------------------------------------------------- steps shared by commands
\* the operator at a prompt: yes, no, or Ctrl-C, which rejects the prompt
\* with 'User force closed'; main ends the process on it
Answers == {"yes", "no", "interrupt"}

\* how a command ends on an answer that is not a yes
Declined(answer) == IF answer = "interrupt" THEN "interrupted" ELSE "cancelled"

\* the prompts between a safety check and recordAction: 'Continue anyway?'
\* of showSafetyWarnings, then the command's own confirmation
AfterChecks(result, proceed, confirm) ==
  LET shown == ShowSafetyWarnings(result, proceed = "yes") IN
  IF shown.asked /\ proceed = "interrupt" THEN "interrupted"
  ELSE IF ~shown.returns THEN "cancelled"
  ELSE IF confirm # "yes" THEN Declined(confirm)
  ELSE "go"

\* a command that records its action before it asks for confirmation
EndEarly_RecordsFirst(p, type, how) ==
  /\ pc' = "done"
  /\ cwd' = p
  /\ report' = [cmd |-> type, confirmed |-> FALSE, issued |-> FALSE, outcome |-> how]
  /\ journal' = IF how = "refused" THEN journal
                ELSE Append(journal, NewAction(nextId, type, p, TRUE))
  /\ UNCHANGED <<gitVars, maxActionHistory, nextId, cmd, act,
                 failedIds, consumed, lastUndo, lastSave, c1>>

\* a command that ends before recordAction: a failed precondition
\* ("refused"), a declined prompt ("cancelled") or an interrupted one
\* ("interrupted")
EndEarly(p, type, how) ==
  /\ pc' = "done"
  /\ cwd' = p
  /\ report' = [cmd |-> type, confirmed |-> FALSE, issued |-> FALSE, outcome |-> how]
  /\ UNCHANGED <<gitVars, journal, maxActionHistory, nextId, cmd, act,
                 failedIds, consumed, lastUndo, lastSave, c1>>

\* actionHistory.recordAction(type, description, canUndo), called by a command
\* in directory p after its last prompt; its rejection is not caught by the
\* command, so the command ends there
RecordAction(p, c, canUndo, readOk, writeOk) ==
  IF HeadHashThrows(p)
  THEN /\ pc' = "done"
       /\ cwd' = p
       /\ report' = [cmd |-> c.type, confirmed |-> TRUE, issued |-> FALSE,
                      outcome |-> "threw"]
       /\ UNCHANGED <<gitVars, journal, maxActionHistory, nextId, cmd, act,
                      failedIds, consumed, lastUndo, lastSave, c1>>
  ELSE LET a == NewAction(nextId, c.type, p, canUndo) IN
       /\ journal' = Saved(Append(LoadHistory(readOk), a), writeOk)
       /\ lastSave' = IF writeOk THEN "ok" ELSE "failed"
       /\ nextId' = nextId + 1
       /\ pc' = "recorded"
       /\ cwd' = p
       /\ cmd' = c
       /\ act' = a
       /\ report' = [cmd |-> c.type, confirmed |-> TRUE, issued |-> FALSE,
                      outcome |-> "running"]
       /\ c1' = IF c.type = "undo_commit"
                THEN [stage |-> "running", path |-> p, pre |-> head[p],
                      clean |-> readOk /\ writeOk,
                      dirty |-> HasUncommittedChanges(p)]
                ELSE NoC1
       /\ UNCHANGED <<gitVars, maxActionHistory, failedIds, consumed, lastUndo>>

\* the mutating accessor call returned
MutationDone ==
  /\ pc' = "mutated"
  /\ report' = [report EXCEPT !.issued = TRUE]
  /\ lastSave' = "none"
  /\ UNCHANGED <<journal, maxActionHistory, nextId, cwd, cmd, act, failedIds,
                 consumed, lastUndo, c1>>

\* the mutating accessor call threw: the catch block of the command reports it
MutationFailed(fault) ==
  /\ pc' = "done"
  /\ report' = [report EXCEPT !.issued = TRUE, !.outcome = "failed"]
  /\ failedIds' = failedIds \cup {act.id}
  /\ cmd' = NoCmd
  /\ act' = NoAction
  /\ lastSave' = "none"
  /\ c1' = C1Step("ran", fault)
  /\ UNCHANGED <<journal, maxActionHistory, nextId, cwd, consumed, lastUndo>>

\* --------------------------------------------------------------- undoCommit
UndoCommitBegin(p, count, mode) ==
  /\ pc = "idle"
  /\ nextId <= MaxActions
  /\ IF RecentCommitsLen(p, RecentWindow) = 0 THEN EndEarly(p, "undo_commit", "refused")
     ELSE \E proceed, confirm \in Answers :
       LET how == AfterChecks(CheckBeforeReset(p, mode, count), proceed, confirm) IN
       IF how # "go" THEN EndEarly(p, "undo_commit", how)
       ELSE \E readOk, writeOk \in BOOLEAN :
              RecordAction(p, [type |-> "undo_commit", count |-> count, mode |-> mode],
                           TRUE, readOk, writeOk)
  /\ UNCHANGED <<stashes, q, writers>>

\* git.softReset / mixedReset / hardReset(`HEAD~${commitCount}`)
UndoCommitMutate(engineOk) ==
  /\ pc = "recorded"
  /\ cmd.type = "undo_commit"
  /\ IF engineOk /\ ResetTargetExists(cwd, cmd.count)
     THEN /\ head' = [head EXCEPT ![cwd] = Ancestor(head[cwd], cmd.count)]
          /\ staged' = [staged EXCEPT ![cwd] = (cmd.mode = "soft")]
          /\ UNCHANGED <<parent, nextHash>>
          /\ MutationDone
     ELSE /\ UNCHANGED gitVars
          /\ MutationFailed(ResetTargetExists(cwd, cmd.count))
  /\ UNCHANGED <<stashes, q, writers>>

\* ------------------------------------------------------------ squashCommits
SquashBegin(p, count) ==
  /\ pc = "idle"
  /\ nextId <= MaxActions
  /\ nextHash <= MaxHash
  /\ IF RecentCommitsLen(p, RecentWindow) < 2 \/ count < 2 THEN EndEarly(p, "squash_commits", "refused")
     ELSE \E proceed, confirm \in Answers :
       LET how == AfterChecks(CheckBeforeReset(p, "soft", count), proceed, confirm) IN
       IF how # "go" THEN EndEarly(p, "squash_commits", how)
       ELSE \E readOk, writeOk \in BOOLEAN :
              RecordAction(p, [type |-> "squash_commits", count |-> count, mode |-> "soft"],
                           TRUE, readOk, writeOk)
  /\ UNCHANGED <<stashes, q, writers>>

\* git.squashCommits(count, message): a soft reset, then a commit; either
\* engine call can fail
SquashMutate(resetOk, commitOk) ==
  /\ pc = "recorded"
  /\ cmd.type = "squash_commits"
  /\ IF ~(resetOk /\ ResetTargetExists(cwd, cmd.count))
     THEN /\ UNCHANGED gitVars
          /\ MutationFailed(ResetTargetExists(cwd, cmd.count))
     ELSE IF ~commitOk
     THEN /\ head' = [head EXCEPT ![cwd] = Ancestor(head[cwd], cmd.count)]
          /\ staged' = [staged EXCEPT ![cwd] = TRUE]
          /\ UNCHANGED <<parent, nextHash>>
          /\ MutationFailed(TRUE)
     ELSE /\ parent' = [parent EXCEPT ![nextHash] = Ancestor(head[cwd], cmd.count)]
          /\ head' = [head EXCEPT ![cwd] = nextHash]
          /\ nextHash' = nextHash + 1
          /\ staged' = [staged EXCEPT ![cwd] = FALSE]
          /\ MutationDone
  /\ UNCHANGED <<stashes, q, writers>>

\* ------------------------------------------------------------- unstageFiles
UnstageBegin(p) ==
  /\ pc = "idle"
  /\ nextId <= MaxActions
  /\ IF ~staged[p] THEN EndEarly(p, "unstage_files", "refused")
     ELSE \E confirm \in Answers :
       IF confirm # "yes" THEN EndEarly(p, "unstage_files", Declined(confirm))
       ELSE \E readOk, writeOk \in BOOLEAN :
              RecordAction(p, [type |-> "unstage_files", count |-> 0, mode |-> "soft"],
                           FALSE, readOk, writeOk)
  /\ UNCHANGED <<stashes, q, writers>>

\* git.unstageAll(), or git.unstageFile per selected file; some staged files
\* remain when only a part was selected
UnstageMutate(engineOk, remaining) ==
  /\ pc = "recorded"
  /\ cmd.type = "unstage_files"
  /\ IF engineOk
     THEN /\ staged' = [staged EXCEPT ![cwd] = remaining]
          /\ UNCHANGED <<head, parent, nextHash>>
          /\ MutationDone
     ELSE /\ UNCHANGED gitVars
          /\ MutationFailed(TRUE)
  /\ UNCHANGED <<stashes, q, writers>>

\* -------------------------------------------------------------- createStash
StashCreateBegin(p) ==
  /\ pc = "idle"
  /\ nextId <= MaxActions
  /\ stashes[p] < MaxStash
  /\ IF ~HasUncommittedChanges(p) THEN EndEarly(p, "stash_create", "refused")
     ELSE \E message \in {"yes", "interrupt"} :
       IF message # "yes" THEN EndEarly(p, "stash_create", Declined(message))
       ELSE \E readOk, writeOk \in BOOLEAN :
              RecordAction(p, [type |-> "stash_create", count |-> 0, mode |-> "soft"],
                           TRUE, readOk, writeOk)
  /\ UNCHANGED <<stashes, q, writers>>

\* git.createStash(message)
StashCreateMutate(engineOk) ==
  /\ pc = "recorded"
  /\ cmd.type = "stash_create"
  /\ IF engineOk
     THEN /\ staged' = [staged EXCEPT ![cwd] = FALSE]
          /\ stashes' = [stashes EXCEPT ![cwd] = @ + 1]
          /\ UNCHANGED <<head, parent, nextHash>>
          /\ MutationDone
     ELSE /\ UNCHANGED <<gitVars, stashes>>
          /\ MutationFailed(TRUE)
  /\ UNCHANGED <<q, writers>>

\* ---------------------------------------------------------------- dropStash
\* dropStash of the stash menu: no recordAction, no completeAction
DropStash(p) ==
  /\ pc = "idle"
  /\ UNCHANGED <<q, writers>>
  /\ IF stashes[p] = 0
     THEN EndEarly(p, "stash_drop", "refused") /\ UNCHANGED stashes
     ELSE \E confirm \in Answers :
       IF confirm # "yes"
       THEN EndEarly(p, "stash_drop", Declined(confirm)) /\ UNCHANGED stashes
       ELSE \E engineOk \in BOOLEAN :
         /\ pc' = "done"
         /\ cwd' = p
         /\ stashes' = IF engineOk THEN [stashes EXCEPT ![p] = @ - 1] ELSE stashes
         /\ report' = [cmd |-> "stash_drop", confirmed |-> TRUE, issued |-> TRUE,
                        outcome |-> IF engineOk THEN "ok" ELSE "failed"]
         /\ UNCHANGED <<gitVars, journal, maxActionHistory, nextId, cmd, act,
                        failedIds, consumed, lastUndo, lastSave, c1>>

\* --------------------------------------------- completeAction and the report
Finish(readOk, writeOk) ==
  /\ pc = "mutated"
  /\ pc' = "done"
  /\ cmd' = NoCmd
  /\ act' = NoAction
  /\ IF HeadHashThrows(cwd)
     THEN /\ report' = [report EXCEPT !.outcome = "failed"]
          /\ c1' = C1Step("ran", TRUE)
          /\ UNCHANGED journal
     ELSE LET found == FindIndex(LoadHistory(readOk), act.id) # 0 IN
          /\ journal' = CompleteAction(act, cwd, readOk, writeOk)
          /\ c1' = C1Step("ran", ~readOk \/ (found /\ ~writeOk))
          /\ report' = [report EXCEPT !.outcome = "ok"]
  /\ UNCHANGED <<gitVars, maxActionHistory, nextId, cwd, failedIds,
                 consumed, lastUndo, lastSave>>
  /\ UNCHANGED <<stashes, q, writers>>

\* the process ends
Exit ==
  /\ pc = "done"
  /\ pc' = "idle"
  /\ cwd' = "p1"
  /\ cmd' = NoCmd
  /\ act' = NoAction
  /\ report' = NoReport
  /\ lastUndo' = NoUndo
  /\ lastSave' = "none"
  /\ c1' = NoC1
  /\ UNCHANGED <<gitVars, journal, maxActionHistory, nextId, failedIds, consumed>>
  /\ UNCHANGED <<stashes, q, writers>>

\* ------------------------------------------------------- undo-action command
\* an undo that marks the undone entry and re-arms every other entry
MarkUndone_RearmOthers(actions, index) ==
  [i \in 1..Len(actions) |-> [actions[i] EXCEPT !.canUndo = (i # index)]]

\* actions[index].canUndo = false
MarkUndone(actions, index) == [actions EXCEPT ![index].canUndo = FALSE]

\* the command that just ended in directory p was an undo-commit
Chained(p) == pc = "done" /\ c1.stage = "ran" /\ c1.path = p

\* an undo that steps back by as many commits as the entry's command moved
\* the head, counted from wherever the head is now
UndoTarget_Relative(lastAction, p) ==
  IF head[p] = lastAction.afterState[1].headHash
  THEN lastAction.beforeState.headHash
  ELSE head[p]

\* the commit git.hardReset is given: lastAction.beforeState.headHash
UndoTarget(lastAction, p) == lastAction.beforeState.headHash

UndoJournal_MarksFirst(lastAction, engineOk, readOk2, writeOk) ==
  LET actions == LoadHistory(readOk2)
      index == FindIndex(actions, lastAction.id)
  IN IF index # 0 THEN Saved(MarkUndone(actions, index), writeOk) ELSE journal

\* the journal file after undoLastAction has called git.hardReset: the try
\* block writes it after the reset, the catch block does not touch it
UndoJournal(lastAction, engineOk, readOk2, writeOk) ==
  IF ~engineOk
  THEN journal
  ELSE LET actions == LoadHistory(readOk2)
           index == FindIndex(actions, lastAction.id)
       IN IF index # 0 THEN Saved(MarkUndone(actions, index), writeOk) ELSE journal

\* ActionHistoryManager.undoLastAction() run in directory p
ManagerUndoLastAction(p, readOk1, engineOk, readOk2, writeOk) ==
  LET lastAction == GetLastUndoableAction(LoadHistory(readOk1), p) IN
  IF lastAction = <<>>
  THEN /\ lastUndo' = [called |-> TRUE, success |-> FALSE, id |-> 0, path |-> p,
                       entryPath |-> p, from |-> head[p]]
       /\ report' = [cmd |-> "undo_action", confirmed |-> TRUE, issued |-> FALSE,
                      outcome |-> "failed"]
       /\ c1' = IF Chained(p) THEN C1Step("undone", ~readOk1) ELSE NoC1
       /\ UNCHANGED <<gitVars, journal, consumed>>
  ELSE IF ~engineOk
  THEN /\ lastUndo' = [called |-> TRUE, success |-> FALSE, id |-> lastAction[1].id,
                       path |-> p, entryPath |-> lastAction[1].repoPath,
                       from |-> head[p]]
       /\ report' = [cmd |-> "undo_action", confirmed |-> TRUE, issued |-> TRUE,
                      outcome |-> "failed"]
       /\ c1' = IF Chained(p) THEN C1Step("undone", TRUE) ELSE NoC1
       /\ journal' = UndoJournal(lastAction[1], engineOk, readOk2, writeOk)
       /\ UNCHANGED <<gitVars, consumed>>
  ELSE LET actions == LoadHistory(readOk2)
           index == FindIndex(actions, lastAction[1].id)
       IN
       /\ head' = [head EXCEPT ![p] = UndoTarget(lastAction[1], p)]
       /\ staged' = [staged EXCEPT ![p] = FALSE]
       /\ UNCHANGED <<parent, nextHash>>
       /\ journal' = UndoJournal(lastAction[1], engineOk, readOk2, writeOk)
       /\ consumed' = IF index # 0 /\ writeOk
                      THEN consumed \cup {lastAction[1].id}
                      ELSE consumed
       /\ lastUndo' = [called |-> TRUE, success |-> TRUE, id |-> lastAction[1].id,
                       path |-> p, entryPath |-> lastAction[1].repoPath,
                       from |-> head[p]]
       /\ report' = [cmd |-> "undo_action", confirmed |-> TRUE, issued |-> TRUE,
                      outcome |-> "ok"]
       /\ c1' = IF Chained(p) THEN C1Step("undone", ~readOk1 \/ ~readOk2 \/ (index # 0 /\ ~writeOk)) ELSE NoC1

\* undoLastAction of commands/history.ts; it may be the very next command
\* after the one that just ended
UndoActionCmd(p) ==
  /\ pc \in {"idle", "done"}
  /\ pc' = "done"
  /\ cwd' = p
  /\ UNCHANGED <<maxActionHistory, nextId, failedIds, cmd, act, lastSave>>
  /\ \E readOk0 \in BOOLEAN :
       IF GetLastUndoableAction(LoadHistory(readOk0), p) = <<>>
       THEN /\ report' = [cmd |-> "undo_action", confirmed |-> FALSE,
                           issued |-> FALSE, outcome |-> "refused"]
            /\ lastUndo' = NoUndo
            /\ c1' = NoC1
            /\ UNCHANGED <<gitVars, journal, consumed>>
       ELSE \E confirm \in Answers :
         IF confirm # "yes"
         THEN /\ report' = [cmd |-> "undo_action", confirmed |-> FALSE,
                             issued |-> FALSE, outcome |-> Declined(confirm)]
              /\ lastUndo' = NoUndo
              /\ c1' = NoC1
              /\ UNCHANGED <<gitVars, journal, consumed>>
         ELSE \E readOk1, engineOk, readOk2, writeOk \in BOOLEAN :
                   ManagerUndoLastAction(p, readOk1, engineOk, readOk2, writeOk)
  /\ UNCHANGED <<stashes, q, writers>>

\* ---------------------------------------- what the operator does with git
GitCommit(p) ==
  /\ pc = "idle"
  /\ nextHash <= MaxHash
  /\ parent' = [parent EXCEPT ![nextHash] = head[p]]
  /\ head' = [head EXCEPT ![p] = nextHash]
  /\ nextHash' = nextHash + 1
  /\ staged' = [staged EXCEPT ![p] = FALSE]
  /\ UNCHANGED <<journal, maxActionHistory, nextId, pc, cwd, cmd, act, report,
                 failedIds, consumed, lastUndo, lastSave, c1>>
  /\ UNCHANGED <<stashes, q, writers>>

GitAdd(p) ==
  /\ pc = "idle"
  /\ ~staged[p]
  /\ staged' = [staged EXCEPT ![p] = TRUE]
  /\ UNCHANGED <<head, parent, nextHash, journal, maxActionHistory, nextId, pc,
                 cwd, cmd, act, report, failedIds, consumed, lastUndo, lastSave,
                 c1>>
  /\ UNCHANGED <<stashes, q, writers>>

\* ------------------------------------------------------------------- Next
\* the directory the operator works in
WorkDir == {"p1"}

\* one operator, one repository, every modelled command
Next ==
  \/ \E p \in WorkDir : GitCommit(p)
  \/ \E p \in WorkDir : GitAdd(p)
  \/ \E p \in WorkDir, count \in 1..MaxHash, mode \in ResetModes :
       UndoCommitBegin(p, count, mode)
  \/ \E engineOk \in BOOLEAN : UndoCommitMutate(engineOk)
  \/ \E p \in WorkDir, count \in 1..MaxHash : SquashBegin(p, count)
  \/ \E resetOk, commitOk \in BOOLEAN : SquashMutate(resetOk, commitOk)
  \/ \E p \in WorkDir : UnstageBegin(p)
  \/ \E engineOk, remaining \in BOOLEAN : UnstageMutate(engineOk, remaining)
  \/ \E p \in WorkDir : StashCreateBegin(p)
  \/ \E engineOk \in BOOLEAN : StashCreateMutate(engineOk)
  \/ \E p \in WorkDir : DropStash(p)
  \/ \E readOk, writeOk \in BOOLEAN : Finish(readOk, writeOk)
  \/ \E p \in WorkDir : UndoActionCmd(p)
  \/ Exit

Spec == Init /\ [][Next]_vars

\* one operator working in two repositories that share the journal file:
\* commits, undo-commit and undo-action in either of them
NextPaths ==
  \/ \E p \in Paths : GitCommit(p)
  \/ \E p \in Paths, count \in 1..MaxHash, mode \in ResetModes :
       UndoCommitBegin(p, count, mode)
  \/ \E engineOk \in BOOLEAN : UndoCommitMutate(engineOk)
  \/ \E readOk, writeOk \in BOOLEAN : Finish(readOk, writeOk)
  \/ \E p \in Paths : UndoActionCmd(p)
  \/ Exit

SpecPaths == Init /\ [][NextPaths]_vars

\* ============================================== the read-only evaluators
\* everything but q
procVars == <<head, parent, nextHash, staged, journal, maxActionHistory, nextId,
              pc, cwd, cmd, act, report, failedIds, consumed, lastUndo, lastSave,
              c1, stashes, writers>>

\* ---------------------------------------------------- safety evaluators
\* a repository as the safety evaluators see it: commits on the branch, how
\* many of the oldest ones a remote branch contains, whether the branch
\* tracks an upstream, and the working tree
ObservedRepos ==
  [commits : 0..MaxCommits, pushedCount : 0..MaxCommits, tracking : BOOLEAN,
   tree : {"clean", "staged", "modified"}]

\* getRecentCommits that answers as many commits as were asked for
RecentCommitsOf_AsRequested(r, logOk, count) == count

\* GitWrapper.getRecentCommits(count).length: [] when `git log` fails
RecentCommitsOf(r, logOk, count) == IF logOk THEN Min(count, r.commits) ELSE 0

\* hasUncommittedChanges that looks at status.staged only
UncommittedOf_StagedOnly(r, statusOk) ==
  IF ~statusOk THEN "throws" ELSE IF r.tree = "staged" THEN "yes" ELSE "no"

\* GitWrapper.hasUncommittedChanges(): rejects when `git status` fails
UncommittedOf(r, statusOk) ==
  IF ~statusOk THEN "throws" ELSE IF r.tree # "clean" THEN "yes" ELSE "no"

\* GitWrapper.isPushed(hash) for the i-th newest commit: false on any failure
\* and when the branch tracks no upstream
IsPushedOf(r, pushedOk, i) ==
  pushedOk /\ r.tracking /\ (r.commits - i + 1) <= r.pushedCount

\* git.isPushed(hash) on the i-th newest commit of the branch
EvalIsPushed ==
  /\ pc = "idle"
  /\ q = NoCall
  /\ \E r \in ObservedRepos, pushedOk \in BOOLEAN :
       /\ r.pushedCount <= r.commits
       /\ \E i \in 1..r.commits :
            q' = [op |-> "isPushed", repo |-> r, index |-> i, pushedOk |-> pushedOk,
                  out |-> IsPushedOf(r, pushedOk, i)]
  /\ UNCHANGED procVars

EvalCheckBeforeReset ==
  /\ pc = "idle"
  /\ q = NoCall
  /\ \E r \in ObservedRepos, mode \in ResetModes, commitCount \in 1..(MaxCommits + 1),
        logOk, statusOk, pushedOk \in BOOLEAN :
       /\ r.pushedCount <= r.commits
       /\ LET len == RecentCommitsOf(r, logOk, commitCount)
              out == CheckBeforeResetOn(len, UncommittedOf(r, statusOk),
                                        [i \in 1..len |-> IsPushedOf(r, pushedOk, i)],
                                        mode, commitCount)
          IN  q' = [op |-> "checkBeforeReset", repo |-> r, mode |-> mode,
                    commitCount |-> commitCount, logOk |-> logOk,
                    statusOk |-> statusOk, pushedOk |-> pushedOk,
                    out |-> out, shown |-> Shown(out)]
  /\ UNCHANGED procVars

EvalCheckBeforeAmend ==
  /\ pc = "idle"
  /\ q = NoCall
  /\ \E r \in ObservedRepos, logOk, pushedOk \in BOOLEAN :
       /\ r.pushedCount <= r.commits
       /\ LET out == CheckBeforeAmendOn(RecentCommitsOf(r, logOk, 1) > 0,
                                        IsPushedOf(r, pushedOk, 1))
          IN  q' = [op |-> "checkBeforeAmend", repo |-> r, logOk |-> logOk,
                    out |-> out, shown |-> Shown(out)]
  /\ UNCHANGED procVars

\* branch names of at most MaxNameLen characters
BranchNames == UNION {[1..n -> NameChars] : n \in 0..MaxNameLen}

EvalCheckBeforeBranchCreate ==
  /\ pc = "idle"
  /\ q = NoCall
  /\ \E branchName \in BranchNames,
        existing \in SUBSET {<<"a">>, <<"a", "/">>, <<"a", ".">>},
        branchOk \in BOOLEAN :
       LET out == CheckBeforeBranchCreateOn([ok |-> branchOk, all |-> existing],
                                           branchName)
       IN  q' = [op |-> "checkBeforeBranchCreate", branchName |-> branchName,
                 existing |-> existing, out |-> out, shown |-> Shown(out)]
  /\ UNCHANGED procVars

\* ------------------------------------------------------- state detector
Operations == {"merge", "rebase", "cherry-pick", "bisect"}

\* a string[] of n file names
Files(n) == [i \in 1..n |-> i]

NoStatus == [present |-> FALSE, ahead |-> 0, behind |-> 0]

\* one RepoIssue pushed when cond holds
IssueIf(cond, type, code, suggestion) ==
  IF cond THEN <<[type |-> type, code |-> code, suggestion |-> suggestion]>> ELSE <<>>

\* detectIssues that pushes BEHIND_REMOTE before UNPUSHED_COMMITS
DetectIssues_BehindFirst(context) ==
  IssueIf(context.isDetachedHead, "warning", "DETACHED_HEAD", "create_branch")
  \o IssueIf(context.ongoingOperation # "null", "warning", "ONGOING_OPERATION",
              IF Len(context.conflictedFiles) > 0 THEN "resolve_or_abort"
              ELSE "continue_or_abort")
  \o IssueIf(Len(context.conflictedFiles) > 0 /\ context.ongoingOperation = "null",
              "error", "HAS_CONFLICTS", "resolve")
  \o IssueIf(~context.lastCommit, "info", "NO_COMMITS", "first_commit")
  \o IssueIf(context.status.present /\ context.status.behind > 0,
              "warning", "BEHIND_REMOTE", "pull")
  \o IssueIf(context.status.present /\ context.status.ahead > 0,
              "info", "UNPUSHED_COMMITS", "safe_to_modify")
  \o IssueIf(context.hasUncommittedChanges /\ ~context.hasStagedChanges,
              "info", "UNSTAGED_CHANGES", "none")
  \o IssueIf(context.hasStagedChanges, "info", "STAGED_CHANGES", "none")

\* detectIssues that reports conflicts whether or not an operation is ongoing
DetectIssues_Both(context) ==
  IssueIf(context.isDetachedHead, "warning", "DETACHED_HEAD", "create_branch")
  \o IssueIf(context.ongoingOperation # "null", "warning", "ONGOING_OPERATION",
              IF Len(context.conflictedFiles) > 0 THEN "resolve_or_abort"
              ELSE "continue_or_abort")
  \o IssueIf(Len(context.conflictedFiles) > 0, "error", "HAS_CONFLICTS", "resolve")
  \o IssueIf(~context.lastCommit, "info", "NO_COMMITS", "first_commit")
  \o IssueIf(context.status.present /\ context.status.ahead > 0,
              "info", "UNPUSHED_COMMITS", "safe_to_modify")
  \o IssueIf(context.status.present /\ context.status.behind > 0,
              "warning", "BEHIND_REMOTE", "pull")
  \o IssueIf(context.hasUncommittedChanges /\ ~context.hasStagedChanges,
              "info", "UNSTAGED_CHANGES", "none")
  \o IssueIf(context.hasStagedChanges, "info", "STAGED_CHANGES", "none")

\* detectIssues(context)
DetectIssues(context) ==
  IssueIf(context.isDetachedHead, "warning", "DETACHED_HEAD", "create_branch")
  \o IssueIf(context.ongoingOperation # "null", "warning", "ONGOING_OPERATION",
              IF Len(context.conflictedFiles) > 0 THEN "resolve_or_abort"
              ELSE "continue_or_abort")
  \o IssueIf(Len(context.conflictedFiles) > 0 /\ context.ongoingOperation = "null",
              "error", "HAS_CONFLICTS", "resolve")
  \o IssueIf(~context.lastCommit, "info", "NO_COMMITS", "first_commit")
  \o IssueIf(context.status.present /\ context.status.ahead > 0,
              "info", "UNPUSHED_COMMITS", "safe_to_modify")
  \o IssueIf(context.status.present /\ context.status.behind > 0,
              "warning", "BEHIND_REMOTE", "pull")
  \o IssueIf(context.hasUncommittedChanges /\ ~context.hasStagedChanges,
              "info", "UNSTAGED_CHANGES", "none")
  \o IssueIf(context.hasStagedChanges, "info", "STAGED_CHANGES", "none")

\* the read queries of the batch in detectRepoState
BatchQueries ==
  {"getCurrentBranch", "hasUncommittedChanges", "hasStagedChanges", "hasRemote",
   "getLastCommit", "getStatus", "isDetachedHead", "getOngoingOperation",
   "getConflictedFiles", "getStashList"}

\* the queries of the batch that have no try/catch of their own
RejectingQueries == {"hasUncommittedChanges", "hasStagedChanges", "getStatus"}

\* defaultState of detectRepoState
DefaultState ==
  [isGitRepo |-> FALSE, currentBranch |-> "null", hasUncommittedChanges |-> FALSE,
   hasStagedChanges |-> FALSE, hasRemote |-> FALSE, lastCommit |-> FALSE,
   status |-> NoStatus, issues |-> <<>>, isDetachedHead |-> FALSE,
   ongoingOperation |-> "null", hasConflicts |-> FALSE, conflictedFiles |-> <<>>,
   hasStashes |-> FALSE, stashCount |-> 0]

\* the directories the detector can be bound to: head is "unborn" (no
\* commit yet), "branch" or "detached"
DetectedDirs ==
  [isRepo : BOOLEAN, head : {"unborn", "branch", "detached"},
   stagedFiles : 0..1, modifiedFiles : 0..1, ahead : 0..1, behind : 0..1,
   remote : BOOLEAN, ongoing : Operations \cup {"null"},
   conflicted : 0..MaxConflicts, stashed : 0..MaxStash]

\* what the batch resolves to when the git process of each query sees the
\* directory seen[query] and the git call of each query in fails fails;
\* queries with a try/catch answer their fallback
BatchAnswersOf(seen, fails) ==
  LET ok(query) == query \notin fails
      at(query) == seen[query]
  IN
  [currentBranch |-> IF ~ok("getCurrentBranch") \/ at("getCurrentBranch").head = "unborn"
                     THEN "null"
                     ELSE IF at("getCurrentBranch").head = "detached" THEN "HEAD"
                     ELSE "main",
   hasUncommittedChanges |-> \/ at("hasUncommittedChanges").stagedFiles > 0
                             \/ at("hasUncommittedChanges").modifiedFiles > 0,
   hasStagedChanges |-> at("hasStagedChanges").stagedFiles > 0,
   hasRemote |-> ok("hasRemote") /\ at("hasRemote").remote,
   lastCommit |-> ok("getLastCommit") /\ at("getLastCommit").head # "unborn",
   status |-> [present |-> TRUE, ahead |-> at("getStatus").ahead,
               behind |-> at("getStatus").behind,
               staged |-> Files(at("getStatus").stagedFiles),
               modified |-> Files(at("getStatus").modifiedFiles)],
   isDetachedHead |-> ok("isDetachedHead") /\ at("isDetachedHead").head = "detached",
   ongoingOperation |-> IF ok("getOngoingOperation")
                        THEN at("getOngoingOperation").ongoing ELSE "null",
   conflictedFiles |-> IF ok("getConflictedFiles")
                       THEN Files(at("getConflictedFiles").conflicted) ELSE <<>>,
   stashList |-> IF ok("getStashList") THEN Files(at("getStashList").stashed) ELSE <<>>]

\* the batch in a directory d that does not change while it runs
BatchAnswers(d, fails) == BatchAnswersOf([query \in BatchQueries |-> d], fails)

\* what detectRepoState returns; queries is the set of read queries issued
Returned(state, queries) == [raised |-> FALSE, queries |-> queries, state |-> state]

\* the state returned for a directory that is not a repository
NotRepoState ==
  [DefaultState EXCEPT
     !.issues = <<[type |-> "error", code |-> "NOT_GIT_REPO",
                   suggestion |-> "git_init"]>>]

\* the state the catch block returns
FailedState ==
  [DefaultState EXCEPT
     !.issues = <<[type |-> "error", code |-> "DETECTION_FAILED",
                   suggestion |-> "check_git"]>>]

\* the state built from the answers b of the batch
PopulatedState(b) ==
  [isGitRepo |-> TRUE, currentBranch |-> b.currentBranch,
   hasUncommittedChanges |-> b.hasUncommittedChanges,
   hasStagedChanges |-> b.hasStagedChanges,
   hasRemote |-> b.hasRemote, lastCommit |-> b.lastCommit,
   status |-> b.status,
   issues |-> DetectIssues(b),
   isDetachedHead |-> b.isDetachedHead,
   ongoingOperation |-> b.ongoingOperation,
   hasConflicts |-> Len(b.conflictedFiles) > 0,
   conflictedFiles |-> b.conflictedFiles,
   hasStashes |-> Len(b.stashList) > 0,
   stashCount |-> Len(b.stashList)]

\* detectRepoState without its try/catch
DetectRepoState_NoCatch(d, fails) ==
  IF ~d.isRepo \/ "isGitRepo" \in fails
  THEN Returned(NotRepoState, {"isGitRepo"})
  ELSE IF fails \cap RejectingQueries # {}
  THEN Raised
  ELSE Returned(PopulatedState(BatchAnswers(d, fails)), {"isGitRepo"} \cup BatchQueries)

\* detectRepoState that starts the batch before it looks at isGitRepo
DetectRepoState_BatchFirst(d, fails) ==
  IF fails \cap RejectingQueries # {}
  THEN Returned(FailedState, {"isGitRepo"} \cup BatchQueries)
  ELSE IF ~d.isRepo \/ "isGitRepo" \in fails
  THEN Returned(NotRepoState, {"isGitRepo"} \cup BatchQueries)
  ELSE Returned(PopulatedState(BatchAnswers(d, fails)), {"isGitRepo"} \cup BatchQueries)

\* detectRepoState() in directory d; fails is the set of queries whose git
\* call fails
DetectRepoState(d, fails) ==
  IF ~d.isRepo \/ "isGitRepo" \in fails
  THEN Returned(NotRepoState, {"isGitRepo"})
  ELSE IF fails \cap RejectingQueries # {}
  THEN Returned(FailedState, {"isGitRepo"} \cup BatchQueries)
  ELSE Returned(PopulatedState(BatchAnswers(d, fails)), {"isGitRepo"} \cup BatchQueries)

\* the contexts detectIssues can be handed
Contexts ==
  [isDetachedHead : BOOLEAN, ongoingOperation : Operations \cup {"null"},
   conflictedFiles : {Files(n) : n \in 0..MaxConflicts}, lastCommit : BOOLEAN,
   status : {NoStatus} \cup [present : {TRUE}, ahead : 0..1, behind : 0..1],
   hasUncommittedChanges : BOOLEAN, hasStagedChanges : BOOLEAN]

EvalDetectIssues ==
  /\ pc = "idle"
  /\ q = NoCall
  /\ \E context \in Contexts :
       q' = [op |-> "detectIssues", context |-> context, out |-> DetectIssues(context)]
  /\ UNCHANGED procVars

\* sets of at most MaxFailures failing git calls
FailureSets ==
  {fails \in SUBSET ({"isGitRepo"} \cup BatchQueries) : Cardinality(fails) <= MaxFailures}

EvalDetectRepoState ==
  /\ pc = "idle"
  /\ q = NoCall
  /\ \E d \in DetectedDirs, fails \in FailureSets :
       /\ d.head = "unborn" => (d.ahead = 0 /\ d.behind = 0)
       /\ q' = [op |-> "detectRepoState", dir |-> d, fails |-> fails,
                out |-> DetectRepoState(d, fails)]
  /\ UNCHANGED procVars

\* what another process does to the repository while the batch runs
ConcurrentChanges == {"git add", "git checkout --detach", "git switch"}

\* directory d after another process ran change in it
Changed(d, change) ==
  CASE change = "git add" ->
         [d EXCEPT !.stagedFiles = IF d.modifiedFiles > 0 THEN 1 ELSE @,
                   !.modifiedFiles = 0]
    [] change = "git checkout --detach" ->
         [d EXCEPT !.head = IF @ = "branch" THEN "detached" ELSE @]
    [] change = "git switch" ->
         [d EXCEPT !.head = IF @ = "detached" THEN "branch" ELSE @]

\* the queries of the batch that run `git status` or `git rev-parse
\* --abbrev-ref HEAD`, each in a git process of its own
ViewQueries ==
  {"getCurrentBranch", "isDetachedHead", "hasUncommittedChanges",
   "hasStagedChanges", "getStatus"}

\* detectRepoState() in a repository d that another process changes while
\* the batch of Promise.all runs: the git processes of the queries in late
\* run after the change, the others before it; no git call fails
EvalDetectRepoStateDuringChange ==
  /\ pc = "idle"
  /\ q = NoCall
  /\ \E d \in DetectedDirs, change \in ConcurrentChanges, late \in SUBSET ViewQueries :
       /\ d.isRepo /\ d.ongoing = "null" /\ d.conflicted = 0 /\ d.stashed = 0
       /\ d.head = "unborn" => (d.ahead = 0 /\ d.behind = 0)
       /\ LET seen == [query \in BatchQueries |->
                         IF query \in late THEN Changed(d, change) ELSE d]
          IN  q' = [op |-> "detectRepoStateDuringChange", dir |-> d,
                    change |-> change, late |-> late,
                    out |-> Returned(PopulatedState(BatchAnswersOf(seen, {})),
                                     {"isGitRepo"} \cup BatchQueries)]
  /\ UNCHANGED procVars

\* ------------------------------------------------- readers of the journal
\* Array.prototype.reverse
Reverse(seq) == [i \in 1..Len(seq) |-> seq[Len(seq) - i + 1]]

\* a COMPLETED entry as completeAction leaves it in the file
StoredEntry(id, p, undoable) ==
  [id |-> id, type |-> "undo_commit", repoPath |-> p,
   beforeState |-> [headHash |-> 2, branch |-> "main"],
   afterState |-> <<[headHash |-> 1, branch |-> "main"]>>,
   undoCommand |-> IF undoable THEN <<2>> ELSE NoCommand, canUndo |-> undoable]

\* journals of at most MaxActions entries
StoredJournals ==
  UNION {[1..n -> {StoredEntry(id, p, u) : id \in 1..MaxActions, p \in Paths,
                                             u \in BOOLEAN}] : n \in 0..MaxActions}

\* history.json: absent, unreadable (readFileSync throws), not JSON
\* (JSON.parse throws), JSON that is not an array (null, or an object), or
\* the array saveHistory wrote
JournalFiles ==
  [kind : {"missing", "unreadable", "malformed", "null", "object"}, actions : {<<>>}]
  \cup [kind : {"array"}, actions : StoredJournals]

\* loadHistory() on a given file: what JSON.parse gave, [] when the file is
\* absent or the try block threw
LoadHistoryOf(file) ==
  IF file.kind \in {"missing", "unreadable", "malformed"}
  THEN [shape |-> "array", actions |-> <<>>]
  ELSE [shape |-> file.kind, actions |-> file.actions]

\* getRecentActions(count) run in repoPath: actions.filter is a TypeError on
\* a value that is not an array
GetRecentActions(file, repoPath, count) ==
  LET loaded == LoadHistoryOf(file) IN
  IF loaded.shape # "array" THEN Raised
  ELSE [raised |-> FALSE,
        actions |-> Reverse(JsSlice(SelectSeq(loaded.actions,
                                              LAMBDA a : a.repoPath = repoPath),
                                    0 - count))]

\* getLastUndoableAction() run in repoPath: actions.length is a TypeError on
\* null and undefined on an object, which ends the loop at once
GetLastUndoableActionOf(file, repoPath) ==
  LET loaded == LoadHistoryOf(file) IN
  IF loaded.shape = "null" THEN Raised
  ELSE IF loaded.shape = "object" THEN [raised |-> FALSE, found |-> <<>>]
  ELSE [raised |-> FALSE, found |-> GetLastUndoableAction(loaded.actions, repoPath)]

EvalGetRecentActions ==
  /\ pc = "idle"
  /\ q = NoCall
  /\ \E file \in JournalFiles, repoPath \in Paths, count \in 0..MaxActions :
       q' = [op |-> "getRecentActions", file |-> file, repoPath |-> repoPath,
             count |-> count,
             out |-> GetRecentActions(file, repoPath, count),
             last |-> GetLastUndoableActionOf(file, repoPath)]
  /\ UNCHANGED procVars

\* ------------------------------------------------- read queries one by one
\* the read queries of GitWrapper that the commands use
ReadQueries ==
  {"getStatus", "getBranches", "getHeadHash", "hasUncommittedChanges",
   "hasStagedChanges", "getUntrackedFiles", "getRecentCommits", "getReflog",
   "getStashList", "getConflictedFiles", "getDeletedBranches"}

\* the git commands the read queries run
EngineCalls == {"status", "branch", "rev-parse", "log", "reflog", "stash", "diff"}

\* the git command a read query runs first
EngineCall(query) ==
  CASE query \in {"getStatus", "hasUncommittedChanges", "hasStagedChanges",
                  "getUntrackedFiles"} -> "status"
    [] query = "getBranches" -> "branch"
    [] query = "getHeadHash" -> "rev-parse"
    [] query = "getRecentCommits" -> "log"
    [] query \in {"getReflog", "getDeletedBranches"} -> "reflog"
    [] query = "getStashList" -> "stash"
    [] query = "getConflictedFiles" -> "diff"

\* the read queries whose git command runs inside a try/catch
CatchingQueries ==
  {"getRecentCommits", "getReflog", "getStashList", "getConflictedFiles"}

\* a read query while the git commands in fails fail: its answer, its
\* fallback, or the rejection it passes on. getDeletedBranches reads the
\* reflog through getReflog and, when the reflog holds a checkout (moved),
\* lists the branches through getBranches
ReadQuery(query, fails, moved) ==
  IF query = "getDeletedBranches"
  THEN IF "reflog" \in fails THEN [raised |-> FALSE, value |-> "fallback"]
       ELSE IF moved /\ "branch" \in fails THEN Raised
       ELSE [raised |-> FALSE, value |-> "answer"]
  ELSE IF EngineCall(query) \notin fails THEN [raised |-> FALSE, value |-> "answer"]
  ELSE IF query \in CatchingQueries THEN [raised |-> FALSE, value |-> "fallback"]
  ELSE Raised

EvalReadQuery ==
  /\ pc = "idle"
  /\ q = NoCall
  /\ \E query \in ReadQueries, fails \in SUBSET EngineCalls, moved \in BOOLEAN :
       q' = [op |-> "readQuery", query |-> query, fails |-> fails, moved |-> moved,
             out |-> ReadQuery(query, fails, moved)]
  /\ UNCHANGED procVars

\* ------------------------------------------------------------ abortOperation
\* the accessor call the switch of abortOperation makes for an operation and
\* a choice ("abort" or "continue"); "none" when no case matches
SwitchCall(operation, choice) ==
  CASE operation = "merge" -> IF choice = "abort" THEN "abortMerge" ELSE "continueMerge"
    [] operation = "rebase" -> IF choice = "abort" THEN "abortRebase" ELSE "continueRebase"
    [] operation = "cherry-pick" ->
         IF choice = "abort" THEN "abortCherryPick" ELSE "continueCherryPick"
    [] OTHER -> "none"

\* abortOperation() after its isGitRepo check: operation is what
\* getOngoingOperation answered, conflicted the number of conflicted files,
\* choice and confirm the operator's answers, headOk whether git rev-parse
\* HEAD resolves for recordAction, engineOk whether the git call of the
\* switch succeeds. calls are the journal and accessor calls in order,
\* ongoing the operation in progress when the command ends
AbortOperation(operation, conflicted, choice, confirm, headOk, engineOk) ==
  LET call == SwitchCall(operation, choice)
      issued == IF call = "none" THEN <<>> ELSE <<call>>
      ran == call = "none" \/ engineOk
      after == IF call # "none" /\ engineOk THEN "null" ELSE operation
  IN
  IF operation = "null"
  THEN [raised |-> FALSE, calls |-> <<>>, reported |-> "no_operation", ongoing |-> "null"]
  ELSE IF choice = "abort"
  THEN IF confirm # "yes"
       THEN [raised |-> FALSE, calls |-> <<>>, reported |-> Declined(confirm),
             ongoing |-> operation]
       ELSE IF ~headOk
       THEN [raised |-> TRUE, calls |-> <<>>, reported |-> "none", ongoing |-> operation]
       ELSE [raised |-> FALSE,
             calls |-> <<"recordAction">> \o issued
                       \o (IF ran THEN <<"completeAction">> ELSE <<>>),
             reported |-> IF ran THEN "success" ELSE "failed",
             ongoing |-> after]
  ELSE IF conflicted > 0
  THEN [raised |-> FALSE, calls |-> <<>>, reported |-> "unresolved_conflicts",
        ongoing |-> operation]
  ELSE [raised |-> FALSE, calls |-> issued,
        reported |-> IF ran THEN "success" ELSE "failed", ongoing |-> after]

EvalAbortOperation ==
  /\ pc = "idle"
  /\ q = NoCall
  /\ \E operation \in Operations \cup {"null"}, conflicted \in 0..MaxConflicts,
        choice \in {"abort", "continue"}, confirm \in Answers,
        headOk, engineOk \in BOOLEAN :
       q' = [op |-> "abortOperation", operation |-> operation,
             conflicted |-> conflicted, choice |-> choice, confirm |-> confirm,
             engineOk |-> engineOk,
             out |-> AbortOperation(operation, conflicted, choice, confirm,
                                    headOk, engineOk)]
  /\ UNCHANGED procVars

\* ------------------------------------------------- how the commands start
\* the commands index.ts registers
EntryPoints ==
  {"menu", "undo", "fix-message", "add-files", "squash", "recover-branch",
   "unstage", "discard", "clean", "abort", "recover-file", "stash", "status",
   "history", "undo-action"}

\* the number of entries showHistory asks for
HistoryShown == 20

\* the calls a command makes, in order, up to the point where it either
\* stops with a message or goes on to its prompts: showHistory and
\* undoLastAction go to the journal at once, menu and status go through
\* detectRepoState, every other command opens with git.isGitRepo()
Prelude(command, isRepo, file, repoPath) ==
  IF command = "history"
  THEN LET recent == GetRecentActions(file, repoPath, HistoryShown) IN
       [calls |-> <<"loadHistory">>, raised |-> recent.raised,
        message |-> IF recent.raised THEN "none"
                    ELSE IF recent.actions = <<>> THEN "no_actions" ELSE "actions"]
  ELSE IF command = "undo-action"
  THEN LET last == GetLastUndoableActionOf(file, repoPath) IN
       [calls |-> <<"loadHistory">>, raised |-> last.raised,
        message |-> IF last.raised THEN "none"
                    ELSE IF last.found = <<>> THEN "no_undoable" ELSE "undo_prompt"]
  ELSE [calls |-> IF isRepo THEN <<"isGitRepo", "next">> ELSE <<"isGitRepo">>,
        raised |-> FALSE,
        message |-> IF isRepo THEN "none" ELSE "not_repo"]

EvalPrelude ==
  /\ pc = "idle"
  /\ q = NoCall
  /\ \E command \in EntryPoints, isRepo \in BOOLEAN, file \in JournalFiles,
        repoPath \in Paths :
       q' = [op |-> "prelude", command |-> command, isRepo |-> isRepo,
             file |-> file, repoPath |-> repoPath,
             out |-> Prelude(command, isRepo, file, repoPath)]
  /\ UNCHANGED procVars

\* a process that calls one evaluator, on any input
NextEval ==
  \/ EvalAbortOperation
  \/ EvalIsPushed
  \/ EvalDetectRepoStateDuringChange
  \/ EvalPrelude
  \/ EvalReadQuery
  \/ EvalCheckBeforeReset
  \/ EvalCheckBeforeAmend
  \/ EvalCheckBeforeBranchCreate
  \/ EvalDetectIssues
  \/ EvalDetectRepoState
  \/ EvalGetRecentActions

\* the evaluators do not read the configuration
InitEval == Init /\ maxActionHistory = MaxHistoryCfg

SpecEval == InitEval /\ [][NextEval]_vars

\* =========================================== two processes, one journal
\* readFileSync and writeFileSync are separate system calls: another
\* process can read or write history.json between the two
raceVars == <<parent, nextHash, staged, maxActionHistory, pc, cwd, cmd, act,
              report, failedIds, consumed, lastUndo, lastSave, c1, stashes, q>>

\* writer w moves to stage at holding copy and act
WriterAt(w, at, copy, a) ==
  writers' = [writers EXCEPT ![w] = [at |-> at, copy |-> copy, act |-> a]]

\* recordAction up to actions.push(action)
RaceRecordLoad(w) ==
  /\ writers[w].at = "idle"
  /\ nextId <= MaxActions
  /\ ~HeadHashThrows("p1")
  /\ LET a == NewAction(nextId, "undo_commit", "p1", TRUE) IN
     WriterAt(w, "record_loaded", Append(LoadHistory(TRUE), a), a)
  /\ nextId' = nextId + 1
  /\ UNCHANGED <<head, journal, raceVars>>

\* recordAction: this.saveHistory(actions)
RaceRecordSave(w) ==
  /\ writers[w].at = "record_loaded"
  /\ journal' = SaveHistory(writers[w].copy)
  /\ WriterAt(w, "recorded", <<>>, writers[w].act)
  /\ UNCHANGED <<head, nextId, raceVars>>

\* the command's mutating call: git reset HEAD~1
RaceMutate(w) ==
  /\ writers[w].at = "recorded"
  /\ IF ResetTargetExists("p1", 1)
     THEN /\ head' = [head EXCEPT !["p1"] = Ancestor(head["p1"], 1)]
          /\ WriterAt(w, "mutated", <<>>, writers[w].act)
     ELSE /\ head' = head
          /\ WriterAt(w, "ended", <<>>, NoAction)
  /\ UNCHANGED <<journal, nextId, raceVars>>

\* completeAction up to actions[index] = action; no save when findIndex
\* gives -1
RaceCompleteLoad(w) ==
  /\ writers[w].at = "mutated"
  /\ LET actions == LoadHistory(TRUE)
         index == FindIndex(actions, writers[w].act.id)
     IN  IF index # 0
         THEN WriterAt(w, "complete_loaded",
                       [actions EXCEPT ![index] = Completed(writers[w].act, "p1")],
                       writers[w].act)
         ELSE WriterAt(w, "ended", <<>>, NoAction)
  /\ UNCHANGED <<head, journal, nextId, raceVars>>

\* completeAction: this.saveHistory(actions)
RaceCompleteSave(w) ==
  /\ writers[w].at = "complete_loaded"
  /\ journal' = SaveHistory(writers[w].copy)
  /\ WriterAt(w, "ended", <<>>, NoAction)
  /\ UNCHANGED <<head, nextId, raceVars>>

\* the undo-action command up to its prompt: getLastUndoableAction, the
\* entry is shown, 'Undo this action?' waits for the operator
RaceUndoShow(w) ==
  /\ writers[w].at = "idle"
  /\ LET lastAction == GetLastUndoableAction(LoadHistory(TRUE), "p1") IN
     IF lastAction = <<>>
     THEN WriterAt(w, "ended", <<>>, NoAction)
     ELSE WriterAt(w, "undo_shown", <<>>, lastAction[1])
  /\ UNCHANGED <<head, journal, nextId, raceVars>>

\* the operator answers; on a yes, actionHistory.undoLastAction up to the
\* hard reset: getLastUndoableAction again, then git.hardReset
RaceUndoReset(w) ==
  /\ writers[w].at = "undo_shown"
  /\ \E confirm \in Answers :
       LET lastAction == GetLastUndoableAction(LoadHistory(TRUE), "p1") IN
       IF confirm # "yes" \/ lastAction = <<>>
       THEN /\ head' = head
            /\ WriterAt(w, "ended", <<>>, NoAction)
       ELSE /\ head' = [head EXCEPT !["p1"] = UndoTarget(lastAction[1], "p1")]
            /\ WriterAt(w, "undo_reset", <<>>, lastAction[1])
  /\ UNCHANGED <<journal, nextId, raceVars>>

\* undoLastAction up to actions[index].canUndo = false; no save when
\* findIndex gives -1
RaceUndoLoad(w) ==
  /\ writers[w].at = "undo_reset"
  /\ LET actions == LoadHistory(TRUE)
         index == FindIndex(actions, writers[w].act.id)
     IN  IF index # 0
         THEN WriterAt(w, "undo_loaded", MarkUndone(actions, index), writers[w].act)
         ELSE WriterAt(w, "ended", <<>>, NoAction)
  /\ UNCHANGED <<head, journal, nextId, raceVars>>

\* undoLastAction: this.saveHistory(actions)
RaceUndoSave(w) ==
  /\ writers[w].at = "undo_loaded"
  /\ journal' = SaveHistory(writers[w].copy)
  /\ WriterAt(w, "ended", <<>>, NoAction)
  /\ UNCHANGED <<head, nextId, raceVars>>

\* the process exits; another may be started in its place
RaceExit(w) ==
  /\ writers[w].at = "ended"
  /\ WriterAt(w, "idle", <<>>, NoAction)
  /\ UNCHANGED <<head, journal, nextId, raceVars>>

NextRace ==
  \/ \E w \in Procs : RaceRecordLoad(w)
  \/ \E w \in Procs : RaceRecordSave(w)
  \/ \E w \in Procs : RaceMutate(w)
  \/ \E w \in Procs : RaceCompleteLoad(w)
  \/ \E w \in Procs : RaceCompleteSave(w)
  \/ \E w \in Procs : RaceUndoShow(w)
  \/ \E w \in Procs : RaceUndoReset(w)
  \/ \E w \in Procs : RaceUndoLoad(w)
  \/ \E w \in Procs : RaceUndoSave(w)
  \/ \E w \in Procs : RaceExit(w)

\* a repository at p1 with a line of MaxHash - 1 commits, an empty journal
\* and room in it for every entry
InitRace ==
  /\ head = [p \in Paths |-> IF p = "p1" THEN MaxHash - 1 ELSE 0]
  /\ parent = [h \in Hashes |-> IF h < MaxHash THEN h - 1 ELSE 0]
  /\ nextHash = MaxHash
  /\ staged = [p \in Paths |-> FALSE]
  /\ journal = <<>>
  /\ maxActionHistory = MaxActions
  /\ nextId = 1
  /\ failedIds = {}
  /\ consumed = {}
  /\ stashes = [p \in Paths |-> 0]
  /\ q = NoCall
  /\ writers = [w \in Procs |-> NoWriter]
  /\ NoProcess

SpecRace == InitRace /\ [][NextRace]_vars

\* ======================================================== the claims
Entries == {journal[i] : i \in 1..Len(journal)}

\* C1: an undo-commit of k <= N commits that is followed at once by the
\* journal's undoLastAction leaves HEAD at the hash it had before the
\* undo-commit started (stated here for the runs in which no journal I/O and
\* no engine call failed for an outside reason)
C1_UndoRestoresHead ==
  (pc = "done" /\ c1.stage = "undone" /\ c1.clean) => head[c1.path] = c1.pre

\* C2 as claimed: while the mutating call is outstanding the journal file
\* holds the entry of the command, with a beforeState and no afterState; and
\* an entry whose mutation failed never has an afterState
C2_PersistedBeforeMutation ==
  /\ pc = "recorded" =>
       \E e \in Entries : /\ e.id = act.id
                          /\ e.beforeState.headHash # 0
                          /\ e.afterState = NoState
  /\ \A e \in Entries : e.id \in failedIds => e.afterState = NoState

\* C2 as amended: while the mutating call is outstanding, recordAction has
\* returned an entry with the current HEAD as beforeState and no afterState,
\* and that entry is the last one of the journal file whenever the save
\* succeeded and maxActionHistory is not negative; and an entry whose
\* mutation failed never has an afterState
C2_RecordedBeforeMutation ==
  /\ pc = "recorded" =>
       /\ act.beforeState.headHash # 0
       /\ act.beforeState.headHash = head[cwd]
       /\ act.afterState = NoState
       /\ (lastSave = "ok" /\ maxActionHistory >= 0) =>
            (journal # <<>> /\ journal[Len(journal)] = act)
  /\ \A e \in Entries : e.id \in failedIds => e.afterState = NoState

\* a command is recorded and saved while the entry of an earlier, failed
\* command is still in the journal
C2_Witness ==
  /\ pc = "recorded"
  /\ lastSave = "ok"
  /\ \E e \in Entries : e.id \in failedIds /\ e.id # act.id

\* C3: after undoLastAction returned success, getLastUndoableAction for the
\* same path does not return the entry with the same id, whatever the save
\* of the undo did
C3_UndoneNotReturnedAgain ==
  (pc = "done" /\ lastUndo.success) =>
    LET next == GetLastUndoableAction(journal, lastUndo.path)
    IN  next = <<>> \/ next[1].id # lastUndo.id

\* C4: getLastUndoableAction never returns an entry recorded for another
\* path than the caller's, and undoLastAction never resets the repository to
\* the beforeState of an entry recorded for another path
C4_UndoScopedToPath ==
  /\ \A p \in Paths :
       LET found == GetLastUndoableAction(journal, p)
       IN  found # <<>> => found[1].repoPath = p
  /\ (lastUndo.called /\ lastUndo.id # 0) => lastUndo.entryPath = lastUndo.path
  /\ (pc = "done" /\ lastUndo.success) =>
       \E e \in Entries : /\ e.id = lastUndo.id
                          /\ e.repoPath = lastUndo.path
                          /\ e.beforeState.headHash = head[lastUndo.path]

\* an undo succeeded in one repository while the journal holds a newer entry
\* of the other repository
C4_Witness ==
  /\ pc = "done"
  /\ lastUndo.success
  /\ \E i, j \in 1..Len(journal) :
       /\ i < j
       /\ journal[i].id = lastUndo.id
       /\ journal[j].repoPath # lastUndo.path

\* C5: the journal file never holds more than maxActionHistory entries
\* (stated for the values that can be a length, maxActionHistory >= 0)
C5_JournalCapped ==
  maxActionHistory >= 0 => Len(journal) <= maxActionHistory

\* C6: a command that got past its prompts issues its mutating call, whatever
\* happens inside recordAction
C6_JournalNeverBlocks ==
  (pc = "done" /\ report.cmd # "undo_action" /\ report.confirmed) => report.issued

C8_Lifecycle ==
  [][\A i \in 1..Len(journal) : \A j \in 1..Len(journal') :
       journal[i].id = journal'[j].id =>
         /\ journal[i].afterState # NoState =>
              journal'[j].afterState = journal[i].afterState
         /\ ~journal[i].canUndo => ~journal'[j].canUndo]_vars

\* an entry consumed by an undo is still in the journal next to a newer
\* entry that was completed after it
C8_Witness ==
  \E i, j \in 1..Len(journal) :
    /\ i < j
    /\ journal[i].id \in consumed
    /\ ~journal[i].canUndo
    /\ journal[j].afterState # NoState

\* C9 as claimed: an entry carries an undo directive only when canUndo is
\* true and the head hashes of beforeState and afterState differ
C9_DirectiveOnlyWhileUndoable ==
  \A e \in Entries :
    e.undoCommand # NoCommand =>
      /\ e.canUndo
      /\ e.afterState # NoState
      /\ e.beforeState.headHash # e.afterState[1].headHash

\* C9 as amended: an entry carries an undo directive only when it was
\* completed with canUndo true and a head hash different from the one of its
\* beforeState; the directive names that beforeState, and it stays after an
\* undo forced canUndo to false
C9_DirectiveOnlyIfHeadMoved ==
  \A e \in Entries :
    e.undoCommand # NoCommand =>
      /\ e.afterState # NoState
      /\ e.beforeState.headHash # e.afterState[1].headHash
      /\ e.undoCommand = <<e.beforeState.headHash>>
      /\ (e.canUndo \/ e.id \in consumed)

\* a consumed entry that still carries its directive
C9_Witness ==
  \E e \in Entries : e.undoCommand # NoCommand /\ ~e.canUndo /\ e.id \in consumed

\* C10: the entry of a failed mutation stays without afterState, and neither
\* getLastUndoableAction nor undoLastAction selects an entry without
\* afterState
C10_FailedNeverUndone ==
  /\ \A e \in Entries : e.id \in failedIds => e.afterState = NoState
  /\ \A p \in Paths :
       LET found == GetLastUndoableAction(journal, p)
       IN  found # <<>> => (found[1].afterState # NoState /\ found[1].id \notin failedIds)
  /\ (lastUndo.called /\ lastUndo.id # 0) => lastUndo.id \notin failedIds

\* an undo succeeded while the journal holds the newer entry of a failed
\* mutation
C10_Witness ==
  /\ pc = "done"
  /\ lastUndo.success
  /\ \E e \in Entries :
       e.id \in failedIds /\ e.id > lastUndo.id /\ e.canUndo /\ e.repoPath = lastUndo.path

\* the last call was of a safety evaluator and it returned a result
SafetyResult ==
  /\ q.op \in {"checkBeforeReset", "checkBeforeAmend", "checkBeforeBranchCreate"}
  /\ ~q.out.raised

\* the elements of a sequence
Range(seq) == {seq[i] : i \in 1..Len(seq)}

\* C11: every SafetyCheckResult the three evaluators return has safe = true
\* if and only if its blockers list is empty, whatever its warnings are
C11_SafeIffNoBlockers ==
  SafetyResult => (q.out.safe <=> q.out.blockers = <<>>)

\* checkBeforeReset returned a safe result that carries warnings
C11_Witness ==
  /\ q.op = "checkBeforeReset"
  /\ ~q.out.raised
  /\ q.out.safe
  /\ Len(q.out.warnings) > 1
  /\ q.out.blockers = <<>>

\* C12: every result checkBeforeReset returns in hard mode for a repository
\* with uncommitted changes carries the warning about discarded changes,
\* for every commit count and with or without a blocker
C12_HardResetWarns ==
  (/\ q.op = "checkBeforeReset"
   /\ q.mode = "hard"
   /\ q.repo.tree # "clean"
   /\ ~q.out.raised)
    => "discard_uncommitted" \in Range(q.out.warnings)

\* a hard reset of more commits than exist in a repository with modified
\* files: a blocker and the warning together
C12_Witness ==
  /\ q.op = "checkBeforeReset"
  /\ q.mode = "hard"
  /\ q.repo.tree = "modified"
  /\ ~q.out.raised
  /\ q.out.blockers # <<>>
  /\ "discard_uncommitted" \in Range(q.out.warnings)

\* C13: every result checkBeforeReset returns for a commit count greater
\* than the number of commits that exist has safe = false and at least one
\* blocker, in every reset mode
C13_TooManyCommitsBlocked ==
  (/\ q.op = "checkBeforeReset"
   /\ q.commitCount > q.repo.commits
   /\ ~q.out.raised)
    => (~q.out.safe /\ Len(q.out.blockers) >= 1)

\* a mixed reset of more commits than the repository has, with a readable
\* log: blocked
C13_Witness ==
  /\ q.op = "checkBeforeReset"
  /\ q.mode = "mixed"
  /\ q.logOk
  /\ q.repo.commits >= 1
  /\ q.commitCount = q.repo.commits + 1
  /\ ~q.out.raised
  /\ ~q.out.safe

\* the issue list of the last detector call
LastIssues ==
  IF q.op = "detectIssues" THEN q.out
  ELSE IF q.op = "detectRepoState" /\ ~q.out.raised THEN q.out.state.issues
  ELSE <<>>

\* the issues of the last detector call that carry the given code
IssuesWith(code) == SelectSeq(LastIssues, LAMBDA issue : issue.code = code)

\* the last detector call saw an ongoing merge with 2 conflicted files
MergeWithTwoConflicts ==
  \/ /\ q.op = "detectIssues"
     /\ q.context.ongoingOperation = "merge"
     /\ Len(q.context.conflictedFiles) = 2
  \/ /\ q.op = "detectRepoState"
     /\ q.dir.isRepo
     /\ q.fails = {}
     /\ q.dir.ongoing = "merge"
     /\ q.dir.conflicted = 2

\* C14: no issue list holds both ONGOING_OPERATION and HAS_CONFLICTS; an
\* ongoing merge with 2 conflicted files gives exactly one
\* ONGOING_OPERATION issue, a warning, and no HAS_CONFLICTS error
C14_OngoingExcludesConflicts ==
  /\ ~(IssuesWith("ONGOING_OPERATION") # <<>> /\ IssuesWith("HAS_CONFLICTS") # <<>>)
  /\ MergeWithTwoConflicts =>
       /\ Len(IssuesWith("ONGOING_OPERATION")) = 1
       /\ IssuesWith("ONGOING_OPERATION")[1].type = "warning"
       /\ IssuesWith("HAS_CONFLICTS") = <<>>

\* detectRepoState ran on a repository with an ongoing merge and 2
\* conflicted files
C14_Witness ==
  /\ q.op = "detectRepoState"
  /\ MergeWithTwoConflicts
  /\ q.out.state.hasConflicts
  /\ Len(q.out.state.conflictedFiles) = 2
  /\ Len(IssuesWith("ONGOING_OPERATION")) = 1

\* C15: with a journal file that is unreadable or corrupted (not JSON, or
\* JSON that is not an array of actions) getRecentActions returns an empty
\* sequence and getLastUndoableAction returns none, and neither raises
C15_CorruptJournalReadsEmpty ==
  (q.op = "getRecentActions" /\ q.file.kind \notin {"missing", "array"}) =>
    /\ ~q.out.raised
    /\ q.out.actions = <<>>
    /\ ~q.last.raised
    /\ q.last.found = <<>>

\* ids of the entries of a journal
Ids(actions) == {actions[i].id : i \in 1..Len(actions)}

\* the running command is the soft undo of one commit, started on a history
\* of three commits without uncommitted changes
SoftUndoOfThree ==
  /\ cmd.type = "undo_commit"
  /\ cmd.count = 1
  /\ cmd.mode = "soft"
  /\ c1.stage = "running"
  /\ Depth(c1.pre) = 3
  /\ ~c1.dirty

\* C16: with 3 commits, none pushed, no uncommitted changes, a confirmed
\* soft undo of 1 commit adds exactly one entry to the journal (recordAction
\* adds it, the reset and completeAction add none), completeAction leaves
\* that entry COMPLETED with type undo_commit, and HEAD is then the
\* second-newest commit with the undone changes staged; stated for a journal
\* file that can be read and written and a maxActionHistory that is not
\* negative
C16_SoftUndoOfOne ==
  [][/\ (pc = "idle" /\ pc' = "recorded" /\ SoftUndoOfThree' /\ c1'.clean
           /\ maxActionHistory >= 0) =>
          /\ Ids(journal') \ Ids(journal) = {act'.id}
          /\ journal'[Len(journal')] = act'
          /\ act'.type = "undo_commit"
          /\ act'.afterState = NoState
     /\ (pc = "recorded" /\ pc' = "mutated" /\ SoftUndoOfThree) =>
          /\ journal' = journal
          /\ head'[cwd] = parent[c1.pre]
          /\ Depth(head'[cwd]) = 2
          /\ staged'[cwd]
     /\ (pc = "mutated" /\ pc' = "done" /\ SoftUndoOfThree /\ c1'.clean
           /\ maxActionHistory >= 0) =>
          /\ Ids(journal') = Ids(journal)
          /\ head'[cwd] = parent[c1.pre]
          /\ \E i \in 1..Len(journal') :
               /\ journal'[i].id = act.id
               /\ journal'[i].type = "undo_commit"
               /\ journal'[i].beforeState.headHash = c1.pre
               /\ journal'[i].afterState # NoState
               /\ journal'[i].afterState[1].headHash = parent[c1.pre]]_vars

\* the soft undo of one commit out of three has ended: the journal holds its
\* COMPLETED entry and HEAD is the second-newest commit
C16_Witness ==
  /\ pc = "done"
  /\ report.cmd = "undo_commit"
  /\ report.outcome = "ok"
  /\ c1.stage = "ran"
  /\ c1.clean
  /\ ~c1.dirty
  /\ Depth(c1.pre) = 3
  /\ head[c1.path] = parent[c1.pre]
  /\ staged[c1.path]
  /\ \E e \in Entries :
       /\ e.type = "undo_commit"
       /\ e.beforeState.headHash = c1.pre
       /\ e.afterState # NoState
       /\ e.afterState[1].headHash = head[c1.path]

\* C17: every mutating accessor call a command issues is bracketed by the
\* journal: the command is past its recordAction when it issues the call
C17_EveryMutationBracketed ==
  [][(report'.issued /\ ~report.issued /\ report'.cmd # "undo_action")
       => pc = "recorded"]_vars

\* index of the newest COMPLETED entry of a path; 0 when there is none
NewestCompleted(actions, repoPath) ==
  LET hits == {i \in 1..Len(actions) :
                 actions[i].repoPath = repoPath /\ actions[i].afterState # NoState}
  IN  IF hits = {} THEN 0 ELSE CHOOSE i \in hits : \A j \in hits : j <= i

\* C18: the newest completed action of a repository, until an undo consumed
\* it, is the one getLastUndoableAction returns, whatever its type
C18_CompletedIsUndoable ==
  \A p \in Paths :
    LET i == NewestCompleted(journal, p)
    IN  (i # 0 /\ journal[i].id \notin consumed)
          => GetLastUndoableAction(journal, p) = <<journal[i]>>

\* C19: for a directory that is not a repository detectRepoState returns
\* isGitRepo = false, every other field at its default, exactly one issue,
\* the error NOT_GIT_REPO, and issues none of the queries of the batch
C19_NotRepoShortCircuits ==
  (q.op = "detectRepoState" /\ ~q.dir.isRepo) =>
    /\ ~q.out.raised
    /\ ~q.out.state.isGitRepo
    /\ Len(q.out.state.issues) = 1
    /\ q.out.state.issues[1].code = "NOT_GIT_REPO"
    /\ q.out.state.issues[1].type = "error"
    /\ [q.out.state EXCEPT !.issues = <<>>] = DefaultState
    /\ q.out.queries \cap BatchQueries = {}

\* the detector ran outside a repository, in a directory that would have
\* had something to report
C19_Witness ==
  /\ q.op = "detectRepoState"
  /\ ~q.dir.isRepo
  /\ q.fails = {}
  /\ q.dir.conflicted > 0
  /\ q.dir.stashed > 0
  /\ q.out.state.issues[1].code = "NOT_GIT_REPO"

\* C20: detectRepoState never raises; when a query of the batch rejects it
\* returns isGitRepo = false, every other field at its default and the one
\* issue DETECTION_FAILED; a state with isGitRepo = false never carries a
\* populated field
C20_DetectionNeverRaises ==
  q.op = "detectRepoState" =>
    /\ ~q.out.raised
    /\ (q.dir.isRepo /\ "isGitRepo" \notin q.fails /\ q.fails \cap RejectingQueries # {}) =>
         /\ ~q.out.state.isGitRepo
         /\ Len(q.out.state.issues) = 1
         /\ q.out.state.issues[1].code = "DETECTION_FAILED"
    /\ ~q.out.state.isGitRepo => [q.out.state EXCEPT !.issues = <<>>] = DefaultState
    /\ q.out.state.isGitRepo =>
         /\ q.fails \cap RejectingQueries = {}
         /\ q.out.state = PopulatedState(BatchAnswers(q.dir, q.fails))

\* `git status` failed under getStatus in a repository with staged files,
\* conflicts and an ongoing merge
C20_Witness ==
  /\ q.op = "detectRepoState"
  /\ q.dir.isRepo
  /\ q.fails = {"getStatus"}
  /\ q.dir.stagedFiles > 0
  /\ q.dir.ongoing = "merge"
  /\ q.dir.conflicted > 0
  /\ ~q.out.raised
  /\ q.out.state.issues[1].code = "DETECTION_FAILED"

\* the last call built an issue list from detector fields: detectIssues
\* itself, or detectRepoState past its batch
IssuesFromFields ==
  \/ q.op = "detectIssues"
  \/ q.op = "detectRepoState" /\ ~q.out.raised /\ q.out.state.isGitRepo

\* the fields the issue list of the last call was built from
LastFields == IF q.op = "detectIssues" THEN q.context ELSE q.out.state

\* codes and severities in the order detectIssues pushes them
IssueRules ==
  << [code |-> "DETACHED_HEAD", type |-> "warning"],
     [code |-> "ONGOING_OPERATION", type |-> "warning"],
     [code |-> "HAS_CONFLICTS", type |-> "error"],
     [code |-> "NO_COMMITS", type |-> "info"],
     [code |-> "UNPUSHED_COMMITS", type |-> "info"],
     [code |-> "BEHIND_REMOTE", type |-> "warning"],
     [code |-> "UNSTAGED_CHANGES", type |-> "info"],
     [code |-> "STAGED_CHANGES", type |-> "info"] >>

\* the condition under which the rule of a code fires on fields f
RuleFires(code, f) ==
  CASE code = "DETACHED_HEAD" -> f.isDetachedHead
    [] code = "ONGOING_OPERATION" -> f.ongoingOperation # "null"
    [] code = "HAS_CONFLICTS" -> Len(f.conflictedFiles) > 0 /\ f.ongoingOperation = "null"
    [] code = "NO_COMMITS" -> ~f.lastCommit
    [] code = "UNPUSHED_COMMITS" -> f.status.present /\ f.status.ahead > 0
    [] code = "BEHIND_REMOTE" -> f.status.present /\ f.status.behind > 0
    [] code = "UNSTAGED_CHANGES" -> f.hasUncommittedChanges /\ ~f.hasStagedChanges
    [] code = "STAGED_CHANGES" -> f.hasStagedChanges

\* position of a code in the rule order
RuleRank(code) == CHOOSE k \in 1..Len(IssueRules) : IssueRules[k].code = code

\* C21: the issue list built from detector fields holds, for each rule,
\* one issue when the rule's condition holds on those fields and none when
\* it does not, with the rule's severity, in rule order, and nothing else
C21_IssuesFollowRules ==
  IssuesFromFields =>
    /\ \A k \in 1..Len(IssueRules) :
         Len(IssuesWith(IssueRules[k].code)) =
           IF RuleFires(IssueRules[k].code, LastFields) THEN 1 ELSE 0
    /\ \A i \in 1..Len(LastIssues) :
         \E k \in 1..Len(IssueRules) :
           /\ LastIssues[i].code = IssueRules[k].code
           /\ LastIssues[i].type = IssueRules[k].type
    /\ \A i, j \in 1..Len(LastIssues) :
         i < j => RuleRank(LastIssues[i].code) < RuleRank(LastIssues[j].code)

\* several rules fired at once: a detached HEAD, an ongoing operation with
\* conflicts, commits to push and to pull, staged changes
C21_Witness ==
  /\ IssuesFromFields
  /\ Len(LastIssues) = 5
  /\ LastIssues[1].code = "DETACHED_HEAD"
  /\ LastIssues[2].code = "ONGOING_OPERATION"
  /\ LastIssues[2].suggestion = "resolve_or_abort"
  /\ LastIssues[5].code = "STAGED_CHANGES"

\* the entries of the journal file of the last call that carry its path
OwnEntries == SelectSeq(q.file.actions, LAMBDA a : a.repoPath = q.repoPath)

\* C22: getRecentActions(n) on a journal that holds an array returns the n
\* newest entries of the current path, newest first, and never more than n,
\* for every n >= 0
C22_AtMostCountNewestFirst ==
  (q.op = "getRecentActions" /\ q.file.kind = "array") =>
    /\ ~q.out.raised
    /\ Len(q.out.actions) = Min(q.count, Len(OwnEntries))
    /\ \A i \in 1..Len(q.out.actions) :
         q.out.actions[i] = OwnEntries[Len(OwnEntries) - i + 1]

\* C22 for the counts a caller can pass without meeting slice(-0)
C22_HoldsForPositiveCount ==
  (q.op = "getRecentActions" /\ q.file.kind = "array" /\ q.count > 0) =>
    /\ ~q.out.raised
    /\ Len(q.out.actions) = Min(q.count, Len(OwnEntries))
    /\ \A i \in 1..Len(q.out.actions) :
         q.out.actions[i] = OwnEntries[Len(OwnEntries) - i + 1]

\* C23: on every result of a safety evaluator, showSafetyWarnings stops the
\* command without a prompt when there is a blocker, lets it go on exactly
\* when the operator answers yes to the prompt when there are only warnings,
\* and lets it go on without a prompt when there is neither
C23_ResultPolicy ==
  SafetyResult =>
    \A answer \in BOOLEAN :
      LET run == q.shown[1][answer] IN
      /\ q.out.blockers # <<>> => (~run.returns /\ ~run.asked)
      /\ (q.out.blockers = <<>> /\ q.out.warnings # <<>>) =>
           (run.asked /\ run.returns = answer)
      /\ (q.out.blockers = <<>> /\ q.out.warnings = <<>>) =>
           (run.returns /\ ~run.asked)

\* a result with warnings and no blocker was shown: the command goes on
\* under the operator's yes and stops under the operator's no
C23_Witness ==
  /\ SafetyResult
  /\ q.out.blockers = <<>>
  /\ q.out.warnings # <<>>
  /\ q.shown[1][TRUE].returns
  /\ ~q.shown[1][FALSE].returns

\* C24: a command run outside a repository calls isGitRepo first and stops
\* there with the not-a-repository message, before any other query and
\* before reading the journal
C24_RepoCheckedFirst ==
  (q.op = "prelude" /\ ~q.isRepo) =>
    (q.out.calls = <<"isGitRepo">> /\ q.out.message = "not_repo")

\* C24 for the commands other than history and undo-action
C24_HoldsForGitCommands ==
  (q.op = "prelude" /\ ~q.isRepo /\ q.command \notin {"history", "undo-action"}) =>
    (q.out.calls = <<"isGitRepo">> /\ q.out.message = "not_repo")

\* C25: a read query of the accessor never passes a failure of git on to
\* its caller: it returns, with its answer or with an empty or default value
C25_ReadsBestEffort ==
  q.op = "readQuery" => ~q.out.raised

\* C25 for the read queries that wrap their git command in a try/catch
C25_HoldsForCatchingQueries ==
  (q.op = "readQuery" /\ q.query \in CatchingQueries) =>
    /\ ~q.out.raised
    /\ q.out.value = IF EngineCall(q.query) \in q.fails THEN "fallback" ELSE "answer"

\* C26: a command that ends because the operator declined or interrupted a
\* prompt, or because showSafetyWarnings returned false, has issued no
\* mutating accessor call, and the repository, the stashes and the journal
\* are as they were when it started
C26_CancelledChangesNothing ==
  [][(pc \in {"idle", "done"} /\ pc' = "done"
        /\ report'.outcome \in {"cancelled", "interrupted"}) =>
       (/\ gitVars' = gitVars
        /\ stashes' = stashes
        /\ journal' = journal
        /\ ~report'.issued)]_vars

\* a squash was interrupted at a prompt in a repository whose journal
\* already holds an entry
C26_Witness ==
  /\ pc = "done"
  /\ report.cmd = "squash_commits"
  /\ report.outcome = "interrupted"
  /\ Len(journal) > 0

\* C27: when the mutation step of a command fails, the head and the index
\* of the repository are as they were before the step started
C27_FailedMutationIsAUnit ==
  [][(pc = "recorded" /\ pc' = "done" /\ report'.outcome = "failed") =>
       (head' = head /\ staged' = staged)]_vars

\* C27 for the commands whose mutation is one git call
C27_HoldsForSingleCalls ==
  [][(pc = "recorded" /\ pc' = "done" /\ report'.outcome = "failed"
        /\ cmd.type \in {"undo_commit", "stash_create"}) =>
       (head' = head /\ staged' = staged)]_vars

\* the stages at which a writer's next step is its saveHistory
SaveStages == {"record_loaded", "complete_loaded", "undo_loaded"}

\* C28: whatever the other process wrote since this one loaded, the file
\* after a process's saveHistory is the array that process held (cut to
\* maxActionHistory): the later writer wins
C28_LastWriterWins ==
  [][\A w \in Procs :
       (writers[w].at \in SaveStages /\ writers'[w].at # writers[w].at) =>
         journal' = JsSlice(writers[w].copy, 0 - maxActionHistory)]_vars

\* a process has saved its new entry, the other process has saved after it
\* from an older load, and the entry is gone from the file
C28_Witness ==
  \E w \in Procs :
    /\ writers[w].at \in {"recorded", "mutated"}
    /\ FindIndex(journal, writers[w].act.id) = 0
    /\ Len(journal) > 0

\* the fields of a returned state agree with one another
ConsistentView(state) ==
  /\ state.hasStagedChanges <=> Len(state.status.staged) > 0
  /\ state.hasUncommittedChanges <=>
       (Len(state.status.staged) > 0 \/ Len(state.status.modified) > 0)
  /\ state.isDetachedHead <=> state.currentBranch = "HEAD"

\* C29: the state detectRepoState returns for a repository that changes
\* while the batch runs is one consistent view: the staged and uncommitted
\* flags agree with status, and isDetachedHead with currentBranch
C29_ConsistentSnapshot ==
  q.op = "detectRepoStateDuringChange" => ConsistentView(q.out.state)

\* C29 for a repository that does not change while the batch runs and
\* whose git calls all succeed
C29_HoldsWhenQuiet ==
  (q.op = "detectRepoState" /\ q.fails = {} /\ q.dir.isRepo) =>
    ConsistentView(q.out.state)

\* the commit isPushed was last asked about is contained in a remote branch
ReachableFromRemote == (q.repo.commits - q.index + 1) <= q.repo.pushedCount

\* C30: when git answers, isPushed(commit) is true exactly when a
\* remote-tracking branch contains the commit, whether or not the current
\* branch tracks an upstream
C30_PushedIffReachable ==
  (q.op = "isPushed" /\ q.pushedOk) => (q.out <=> ReachableFromRemote)

\* C30 on a branch that tracks an upstream
C30_HoldsWhenTracking ==
  (q.op = "isPushed" /\ q.pushedOk /\ q.repo.tracking) =>
    (q.out <=> ReachableFromRemote)

\* the candidates of the last checkBeforeReset call for which isPushed
\* answered true: positions among the commits getRecentCommits returned
PushedCandidates ==
  {i \in 1..RecentCommitsOf(q.repo, q.logOk, q.commitCount) :
     IsPushedOf(q.repo, q.pushedOk, i)}

NameOutsideAllowedSet ==
  q.branchName = <<>> \/ \E i \in 1..Len(q.branchName) : q.branchName[i] = "."

\* C32: a result of checkBeforeBranchCreate has the exists blocker exactly
\* when the name is among the branches and the invalid-name blocker exactly
\* when the name is empty or holds a character outside the allowed set, both
\* when both hold, safe = false exactly when there is one, and no warning
C32_BranchCreateBlockers ==
  (q.op = "checkBeforeBranchCreate" /\ ~q.out.raised) =>
    /\ q.out.blockers =
         (IF q.branchName \in q.existing THEN <<"exists">> ELSE <<>>)
         \o (IF NameOutsideAllowedSet THEN <<"invalid_name">> ELSE <<>>)
    /\ q.out.safe <=> ~(q.branchName \in q.existing \/ NameOutsideAllowedSet)
    /\ q.out.warnings = <<>>

\* a name that exists and holds a character outside the allowed set: both
\* blockers
C32_Witness ==
  /\ q.op = "checkBeforeBranchCreate"
  /\ ~q.out.raised
  /\ q.branchName = <<"a", ".">>
  /\ q.out.blockers = <<"exists", "invalid_name">>
  /\ ~q.out.safe

\* C33: a reset command that got past checkBeforeReset without a blocker
\* and recorded its action resets to a commit that exists: HEAD~k names a
\* commit for its count k
C33_UnblockedResetHasTarget ==
  (pc = "recorded" /\ cmd.type \in {"undo_commit", "squash_commits"}) =>
    ResetTargetExists(cwd, cmd.count)

\* C33 for counts below the number of commits of the repository
C33_HoldsBelowTotal ==
  (pc = "recorded" /\ cmd.type \in {"undo_commit", "squash_commits"}
     /\ cmd.count < Depth(head[cwd])) =>
    ResetTargetExists(cwd, cmd.count)

\* the operator chose abort and confirmed, and the command reported success
AbortReportedSuccess ==
  /\ q.op = "abortOperation"
  /\ q.choice = "abort"
  /\ ~q.out.raised
  /\ q.out.reported = "success"

\* C34: when abortOperation reports success for a confirmed abort, it has
\* issued an abort mutation between recordAction and completeAction, and no
\* operation is ongoing any more
C34_AbortEndsOperation ==
  AbortReportedSuccess =>
    /\ Len(q.out.calls) = 3
    /\ q.out.calls[2] = SwitchCall(q.operation, "abort")
    /\ q.out.ongoing = "null"

\* C34 for the operations the switch has a case for
C34_HoldsForMergeRebaseCherryPick ==
  (AbortReportedSuccess /\ q.operation # "bisect") =>
    /\ Len(q.out.calls) = 3
    /\ q.out.calls[2] = SwitchCall(q.operation, "abort")
    /\ q.out.ongoing = "null"

\* C35: after a successful undoLastAction the head of the repository is the
\* beforeState head hash of the entry it selected, whatever the head was
\* when the undo started
C35_UndoResetsToBeforeState ==
  [][(pc \in {"idle", "done"} /\ pc' = "done" /\ lastUndo'.success) =>
       LET i == FindIndex(journal, lastUndo'.id) IN
       /\ i # 0
       /\ head'[lastUndo'.path] = journal[i].beforeState.headHash]_vars

\* an undo succeeded from a head that is neither the head the entry's
\* command left nor the head it started from: a commit made after the
\* entry was completed is no longer on the branch
C35_Witness ==
  /\ pc = "done"
  /\ lastUndo.success
  /\ \E e \in Entries :
       /\ e.id = lastUndo.id
       /\ e.afterState # NoState
       /\ lastUndo.from # e.afterState[1].headHash
       /\ lastUndo.from # e.beforeState.headHash
       /\ head[lastUndo.path] = e.beforeState.headHash

\* C36: the entry undo-action resets to after the operator's yes is the
\* entry it showed before the prompt, also when another process wrote the
\* journal while the prompt was waiting
C36_UndoneIsShown ==
  [][\A w \in Procs :
       (writers[w].at = "undo_shown" /\ writers'[w].at = "undo_reset") =>
         writers'[w].act.id = writers[w].act.id]_vars

\* C36 when no other process is in the middle of a command
C36_HoldsWhenAlone ==
  [][\A w \in Procs :
       (/\ writers[w].at = "undo_shown"
        /\ writers'[w].at = "undo_reset"
        /\ \A v \in Procs \ {w} : writers[v].at = "idle"
        /\ GetLastUndoableAction(journal, "p1") = <<writers[w].act>>) =>
         writers'[w].act.id = writers[w].act.id]_vars

\* C37: an undoLastAction that returns success = false has changed neither
\* the journal nor the repository; after a failed hard reset the next
\* getLastUndoableAction returns the same entry, and without an undoable
\* entry no mutation was issued
C37_FailedUndoChangesNothing ==
  [][(pc' = "done" /\ lastUndo'.called /\ ~lastUndo'.success) =>
       /\ journal' = journal
       /\ head' = head /\ staged' = staged /\ parent' = parent
       /\ IF lastUndo'.id = 0
          THEN ~report'.issued
          ELSE /\ report'.issued
               /\ report'.outcome = "failed"
               /\ GetLastUndoableAction(journal', lastUndo'.path) # <<>>
               /\ GetLastUndoableAction(journal', lastUndo'.path)[1].id
                    = lastUndo'.id]_vars

C37_Witness ==
  /\ pc = "done"
  /\ lastUndo.called /\ ~lastUndo.success
  /\ lastUndo.id # 0
  /\ report.issued
  /\ \E i \in 1..Len(journal) : journal[i].id = lastUndo.id /\ journal[i].canUndo

\* s is what is left of t after dropping entries from its front
IsSuffix(s, t) ==
  /\ Len(s) <= Len(t)
  /\ s = SubSeq(t, Len(t) - Len(s) + 1, Len(t))

====
